---------------------------- MODULE Spec2Model ----------------------------
(***************************************************************************)
(* State-machine model of the simulation engine of the strategy            *)
(* repository: Position, Portfolio and BacktestEngine (src/backtester/)    *)
(* and the bar-by-bar Backtester (src/backtester.py).                      *)
(*                                                                         *)
(* Python floats are modelled as exact rationals <<n, d>> (d > 0, reduced),*)
(* Optional[...] values as sequences: None is << >>, a value v is <<v>>.   *)
(* Position objects live in `heap`; a reference is an index into it.       *)
(***************************************************************************)
EXTENDS Integers, Sequences, FiniteSets, TLC

VARIABLES
    heap,              \* every Position object constructed so far
    initial_capital,   \* Portfolio.initial_capital
    cash,              \* Portfolio.cash
    equity,            \* Portfolio.equity
    positions,         \* Portfolio.positions: symbol -> reference
    closed_positions,  \* Portfolio.closed_positions: list of references
    trade_history,     \* Portfolio.trade_history
    config,            \* BacktestEngine.config
    engine_positions,  \* BacktestEngine.positions: list of references
    history,           \* BacktestEngine.history
    bar,               \* the row the run loop processed last (None before the first)
    bar_index,         \* its timestamp: the number of rows processed
    initial_balance,   \* Backtester.initial_balance
    balance,           \* Backtester.balance
    equity_curve,      \* Backtester.equity_curve
    trades,            \* Backtester.trades
    last_trade_type,   \* Backtester.last_trade_type
    run,               \* the locals of Backtester.run_backtest
    results,           \* what PerformanceAnalyzer.calculate or a report method returned
    optimizer,         \* the optimizer object and the search it is running
    lastOp             \* the call made by the last step and how it ended

vars == <<heap, initial_capital, cash, equity, positions, closed_positions,
          trade_history, config, engine_positions, history, bar, bar_index,
          initial_balance, balance, equity_curve, trades, last_trade_type, run,
          results, optimizer, lastOp>>

portfolioVars == <<initial_capital, heap, cash, equity, positions,
                   closed_positions, trade_history, engine_positions, history>>
backtesterVars == <<initial_balance, balance, equity_curve, trades,
                    last_trade_type, run>>

-----------------------------------------------------------------------------
(* Bounds and input sets                                                   *)

MaxHeap == 2
MaxBars == 3
MaxRows == 3

Symbols == {"EURUSD"}
Directions == {"long", "short"}
PriceInts == {1, 2}
SizeInts == {2}
CapitalInts == {4}
WallClock == {1, 2}

-----------------------------------------------------------------------------
(* Exact rational arithmetic standing for float arithmetic                 *)

Abs(n) == IF n < 0 THEN -n ELSE n

RECURSIVE GCD(_, _)
GCD(a, b) == IF b = 0 THEN a ELSE GCD(b, a % b)

Rat(n, d) ==
    LET s == IF d < 0 THEN -1 ELSE 1
        g == GCD(Abs(n), Abs(d))
    IN  <<(s * n) \div g, (s * d) \div g>>

RInt(n) == <<n, 1>>
\* sums and products cancel common factors first, to keep the integers small
RAdd(a, b) ==
    LET g == GCD(a[2], b[2])
    IN  Rat(a[1] * (b[2] \div g) + b[1] * (a[2] \div g), (a[2] \div g) * b[2])
RNeg(a) == <<-a[1], a[2]>>
RSub(a, b) == RAdd(a, RNeg(b))
RMul(a, b) ==
    LET g1 == GCD(Abs(a[1]), b[2])
        g2 == GCD(Abs(b[1]), a[2])
    IN  Rat((a[1] \div g1) * (b[1] \div g2), (a[2] \div g2) * (b[2] \div g1))
RDiv(a, b) == RMul(a, Rat(b[2], b[1]))
RLe(a, b) ==
    LET g == GCD(a[2], b[2])
    IN  a[1] * (b[2] \div g) <= b[1] * (a[2] \div g)
RLt(a, b) == ~RLe(b, a)
RMin(a, b) == IF RLe(a, b) THEN a ELSE b

None == << >>
Some(v) == <<v>>

Prices == {RInt(n) : n \in PriceInts}
Sizes == {RInt(n) : n \in SizeInts}
InitialCapitals == {RInt(n) : n \in CapitalInts}

-----------------------------------------------------------------------------
(* Position  (src/backtester/position.py)                                  *)

Position(symbol, direction, entry_price, size, timestamp) ==
    [symbol |-> symbol, direction |-> direction, entry_price |-> entry_price,
     size |-> size, timestamp |-> timestamp,
     exit_price |-> None, exit_timestamp |-> None, pnl |-> None]

\* variant: the long formula whatever the direction
pnl_value_ignoring_direction(self, current_price) ==
    RMul(RSub(current_price, self.entry_price), self.size)

\* the value calculate_pnl computes: everything but 'long' takes the else branch
pnl_value(self, current_price) ==
    IF self.direction = "long"
    THEN RMul(RSub(current_price, self.entry_price), self.size)
    ELSE RMul(RSub(self.entry_price, current_price), self.size)

\* calculate_pnl stores the value in self.pnl and returns it; the operator
\* yields the object after the call, the returned value is its pnl
calculate_pnl(self, current_price) ==
    [self EXCEPT !.pnl = Some(pnl_value(self, current_price))]

close(self, exit_price, timestamp) ==
    calculate_pnl([self EXCEPT !.exit_price = Some(exit_price),
                               !.exit_timestamp = Some(timestamp)],
                  exit_price)

get_value(self, current_price) == RMul(self.size, current_price)

get_unrealized_pnl(self, current_price) == calculate_pnl(self, current_price)

-----------------------------------------------------------------------------
(* Portfolio  (src/backtester/portfolio.py)                                *)
(* Its methods are operators from a world record to the world after the    *)
(* call, so that the engine's handlers can chain them.                     *)

World ==
    [heap |-> heap, cash |-> cash, equity |-> equity, positions |-> positions,
     closed_positions |-> closed_positions, trade_history |-> trade_history,
     engine_positions |-> engine_positions, history |-> history]

\* variant: the comparison of has_sufficient_funds turned around
has_sufficient_funds_reversed(w, required_margin) == RLe(w.cash, required_margin)

has_sufficient_funds(w, required_margin) == RLe(required_margin, w.cash)

RECURSIVE SumUnrealized(_, _)
SumUnrealized(hp, refs) ==
    IF refs = {} THEN RInt(0)
    ELSE LET r == CHOOSE x \in refs : TRUE
         IN  RAdd(get_unrealized_pnl(hp[r], hp[r].entry_price).pnl[1],
                  SumUnrealized(hp, refs \ {r}))

\* marks every open position at its own entry price (portfolio.py:52-55);
\* get_unrealized_pnl stores the result in the position it is called on
update_equity(w) ==
    LET open == {w.positions[s] : s \in DOMAIN w.positions}
        hp == [r \in DOMAIN w.heap |->
                  IF r \in open
                  THEN get_unrealized_pnl(w.heap[r], w.heap[r].entry_price)
                  ELSE w.heap[r]]
    IN  [w EXCEPT !.heap = hp,
                  !.equity = RAdd(w.cash, SumUnrealized(w.heap, open))]

record_trade(w, ref, action) ==
    LET position == w.heap[ref]
        trade == [timestamp |-> position.timestamp,
                  symbol |-> position.symbol,
                  action |-> action,
                  direction |-> position.direction,
                  price |-> IF action = "open" THEN Some(position.entry_price)
                            ELSE position.exit_price,
                  size |-> position.size,
                  pnl |-> IF action = "close" THEN position.pnl ELSE None,
                  cash |-> w.cash,
                  equity |-> w.equity]
    IN  [w EXCEPT !.trade_history = Append(w.trade_history, trade)]

\* variant: add_position without its funds check
add_position_accepts_unchecked(w, ref) == TRUE

\* add_position raises ValueError exactly when this is false
add_position_accepts(w, ref) ==
    has_sufficient_funds(w, get_value(w.heap[ref], w.heap[ref].entry_price))

MapPut(f, k, v) == [x \in DOMAIN f \cup {k} |-> IF x = k THEN v ELSE f[x]]
MapDel(f, k) == [x \in DOMAIN f \ {k} |-> f[x]]

\* the world after a call of add_position that does not raise
add_position(w, ref) ==
    LET position == w.heap[ref]
        margin == get_value(position, position.entry_price)
        w1 == [w EXCEPT !.cash = RSub(w.cash, margin),
                        !.positions = MapPut(w.positions, position.symbol, ref)]
    IN  record_trade(update_equity(w1), ref, "open")

\* variant: remove_position without the early return for an absent symbol
remove_position_unguarded(w, ref, exit_price, now) ==
    LET closed == close(w.heap[ref], exit_price, now)
        w1 == [w EXCEPT !.heap[ref] = closed,
                        !.cash = RAdd(w.cash, get_value(closed, exit_price)),
                        !.positions = MapDel(w.positions, closed.symbol),
                        !.closed_positions = Append(w.closed_positions, ref)]
    IN  record_trade(update_equity(w1), ref, "close")

remove_position(w, ref, exit_price, now) ==
    IF w.heap[ref].symbol \notin DOMAIN w.positions
    THEN w
    ELSE LET closed == close(w.heap[ref], exit_price, now)
             w1 == [w EXCEPT !.heap[ref] = closed,
                             !.cash = RAdd(w.cash, get_value(closed, exit_price)),
                             !.positions = MapDel(w.positions, closed.symbol),
                             !.closed_positions = Append(w.closed_positions, ref)]
         IN  record_trade(update_equity(w1), ref, "close")

Commit(w) ==
    /\ heap' = w.heap
    /\ cash' = w.cash
    /\ equity' = w.equity
    /\ positions' = w.positions
    /\ closed_positions' = w.closed_positions
    /\ trade_history' = w.trade_history
    /\ engine_positions' = w.engine_positions
    /\ history' = w.history

-----------------------------------------------------------------------------
(* TradingCostManager  (src/backtester/costs.py)                           *)

CommissionCost_calculate(rate, trade_value) == RMul(trade_value, rate)

SpreadCost_calculate(spread_points, point_value, trade_value) ==
    RMul(spread_points, point_value)

SlippageCost_calculate(slippage_pips, trade_value) ==
    RMul(trade_value, RDiv(slippage_pips, RInt(10000)))

\* _initialize_costs keeps a component for each configured key;
\* calculate_total_cost sums the components
calculate_total_cost(costs, trade_value) ==
    RAdd(RAdd(IF "commission_rate" \in DOMAIN costs
              THEN CommissionCost_calculate(costs["commission_rate"], trade_value)
              ELSE RInt(0),
              IF {"spread_points", "point_value"} \subseteq DOMAIN costs
              THEN SpreadCost_calculate(costs["spread_points"],
                                        costs["point_value"], trade_value)
              ELSE RInt(0)),
         IF "slippage_pips" \in DOMAIN costs
         THEN SlippageCost_calculate(costs["slippage_pips"], trade_value)
         ELSE RInt(0))

-----------------------------------------------------------------------------
(* BacktestEngine  (src/backtester/engine.py)                              *)

\* configurations of the run: the cap, with and without trading costs; the
\* engine is handed trading.allow_consecutive_trades and never reads it
NoCosts == [k \in {} |-> RInt(0)]
AllCosts == [k \in {"commission_rate", "spread_points", "point_value",
                    "slippage_pips"} |->
                CASE k = "commission_rate" -> Rat(1, 4)
                  [] k = "spread_points" -> RInt(2)
                  [] k = "point_value" -> RInt(2)
                  [] k = "slippage_pips" -> RInt(2500)]

EngineConfig(max_open_trades, trading_costs) ==
    [risk_management |->
        [initial_capital |-> RInt(8), max_open_trades |-> max_open_trades,
         risk_percentage |-> Rat(3, 8), stop_loss_multiplier |-> Rat(3, 4),
         take_profit_multiplier |-> Rat(3, 4)],
     trading |-> [allow_consecutive_trades |-> FALSE],
     trading_costs |-> trading_costs]

Configs == {EngineConfig(1, AllCosts), EngineConfig(2, NoCosts)}

\* rows of the price series: low <= close <= high
Row(low, high, close_) ==
    [low |-> RInt(low), high |-> RInt(high), close |-> RInt(close_)]
Bars == {Row(2, 2, 2), Row(1, 2, 1), Row(2, 4, 4), Row(1, 4, 2), Row(4, 4, 4)}

\* what IStrategy.generate_signals may return for a row: nothing, or a
\* signal at the row's close whose direction is 'long', 'short' or None
SignalVolume == RInt(2)
SignalsFor(row) ==
    {[symbol |-> s, direction |-> d, price |-> row.close,
      volume |-> SignalVolume] : s \in Symbols, d \in {"long", "short", "None"}}

engine_record_trade(w, ref, action, exit_price, pnl) ==
    LET position == w.heap[ref]
        trade_record == [timestamp |-> position.timestamp,
                         symbol |-> position.symbol,
                         direction |-> position.direction,
                         action |-> action,
                         price |-> IF action = "open"
                                   THEN Some(position.entry_price)
                                   ELSE exit_price,
                         size |-> position.size,
                         pnl |-> IF action = "close" THEN pnl ELSE None,
                         equity |-> w.equity]
    IN  [w EXCEPT !.history = Append(w.history, trade_record)]

\* variant: the cap compared with > instead of >=
can_open_position_off_by_one(cfg, w, signals) ==
    /\ has_sufficient_funds(w, RMul(signals.price, signals.volume))
    /\ ~(Len(w.engine_positions) > cfg.risk_management.max_open_trades)

can_open_position(cfg, w, signals) ==
    /\ has_sufficient_funds(w, RMul(signals.price, signals.volume))
    /\ ~(Len(w.engine_positions) >= cfg.risk_management.max_open_trades)

calculate_position_size(cfg, w, signals) ==
    LET risk_per_trade == RMul(w.equity, cfg.risk_management.risk_percentage)
    IN  RMin(signals.volume,
             RDiv(risk_per_trade,
                  RMul(signals.price, cfg.risk_management.stop_loss_multiplier)))

calculate_trading_costs(cfg, trade_value) ==
    calculate_total_cost(cfg.trading_costs, trade_value)

\* how process_signals ends for a non-empty signal: one of its three early
\* returns, the ValueError of add_position, or a position opened
process_signals_outcome(cfg, w, signals) ==
    IF ~can_open_position(cfg, w, signals) THEN "cannot_open"
    ELSE LET position_size == calculate_position_size(cfg, w, signals)
             trade_value == RMul(signals.price, position_size)
             costs == calculate_trading_costs(cfg, trade_value)
             position == Position(signals.symbol, signals.direction,
                                  signals.price, position_size, 0)
             w0 == [w EXCEPT !.heap = Append(w.heap, position)]
         IN  IF RLe(position_size, RInt(0)) THEN "no_size"
             ELSE IF ~has_sufficient_funds(w, RAdd(trade_value, costs))
                  THEN "no_funds"
             ELSE IF ~add_position_accepts(w0, Len(w0.heap))
                  THEN "ValueError"
             ELSE "opened"

\* the world after process_signals; the Position is constructed only when
\* every check has passed, and add_position may still raise
process_signals(cfg, w, signals, timestamp) ==
    LET outcome == process_signals_outcome(cfg, w, signals)
        ref == Len(w.heap) + 1
        position == Position(signals.symbol, signals.direction, signals.price,
                             calculate_position_size(cfg, w, signals), timestamp)
        w0 == [w EXCEPT !.heap = Append(w.heap, position)]
        w1 == add_position(w0, ref)
        w2 == [w1 EXCEPT !.engine_positions = Append(w1.engine_positions, ref)]
    IN  CASE outcome = "opened" ->
               engine_record_trade(w2, ref, "open", None, None)
          [] outcome = "ValueError" -> w0
          [] OTHER -> w

should_close_position(cfg, position, current_data) ==
    IF position.direction = "long"
    THEN LET stop_loss == RMul(position.entry_price,
                 RSub(RInt(1), cfg.risk_management.stop_loss_multiplier))
             take_profit == RMul(position.entry_price,
                 RAdd(RInt(1), cfg.risk_management.take_profit_multiplier))
         IN  RLe(current_data.low, stop_loss) \/ RLe(take_profit, current_data.high)
    ELSE LET stop_loss == RMul(position.entry_price,
                 RAdd(RInt(1), cfg.risk_management.stop_loss_multiplier))
             take_profit == RMul(position.entry_price,
                 RSub(RInt(1), cfg.risk_management.take_profit_multiplier))
         IN  RLe(stop_loss, current_data.high) \/ RLe(current_data.low, take_profit)

\* list.remove: drops the first occurrence
ListRemove(lst, x) ==
    LET i == CHOOSE j \in 1..Len(lst) :
                 lst[j] = x /\ \A k \in 1..(j - 1) : lst[k] # x
    IN  SubSeq(lst, 1, i - 1) \o SubSeq(lst, i + 1, Len(lst))

close_position(w, ref, current_data, now) ==
    LET exit_price == current_data.close
        marked == calculate_pnl(w.heap[ref], exit_price)
        pnl == marked.pnl
        w1 == remove_position([w EXCEPT !.heap[ref] = marked], ref, exit_price, now)
        w2 == [w1 EXCEPT !.engine_positions = ListRemove(w1.engine_positions, ref)]
    IN  engine_record_trade(w2, ref, "close", Some(exit_price), pnl)

\* the loop of update_positions over a copy of self.positions, from its
\* i-th element on; nows[i] is what datetime.now() reads for the i-th one
RECURSIVE update_positions_from(_, _, _, _, _, _)
update_positions_from(cfg, w, copy, i, current_data, nows) ==
    IF i > Len(copy) THEN w
    ELSE update_positions_from(cfg,
             IF should_close_position(cfg, w.heap[copy[i]], current_data)
             THEN close_position(w, copy[i], current_data, nows[i])
             ELSE w,
             copy, i + 1, current_data, nows)

update_positions(cfg, w, current_data, nows) ==
    update_positions_from(cfg, w, w.engine_positions, 1, current_data, nows)

-----------------------------------------------------------------------------
(* Backtester  (src/backtester.py)                                         *)

\* round(x, 2): to the nearest hundredth, a tie to the even one
Round2(x) ==
    LET y == RMul(x, RInt(100))
        f == y[1] \div y[2]
        twice == 2 * (y[1] - f * y[2])
    IN  IF twice < y[2] THEN Rat(f, 100)
        ELSE IF twice > y[2] THEN Rat(f + 1, 100)
        ELSE IF f % 2 = 0 THEN Rat(f, 100) ELSE Rat(f + 1, 100)

DefaultInitialBalance == 10000
ContractSize == 100000
PipValue == 10

BacktesterConfigs ==
    {[risk_management |->
         [commission_per_lot |-> RInt(7),
          position_sizing |-> [type |-> t, fixed_volume |-> Rat(1, 100)],
          risk_percentage |-> Rat(3, 200000),
          stop_loss_multiplier |-> Rat(3, 2)],
      trading |->
         [allow_consecutive_trades |-> a,
          exit_rules |-> [stop_loss |-> [type |-> "fixed", value |-> RInt(1)],
                          take_profit |-> [type |-> "fixed", value |-> RInt(2)]]]]
     : t \in {"fixed", "risk_based"}, a \in BOOLEAN}

AtrInts == {1}
DataRows ==
    {[low |-> b.low, high |-> b.high, close |-> b.close,
      long_signal |-> l, short_signal |-> s, ATR |-> RInt(a)]
     : b \in Bars, l \in BOOLEAN, s \in BOOLEAN, a \in AtrInts}

\* the locals of run_backtest before the first row
NoRun == [position |-> None, entry_price |-> RInt(0), volume |-> RInt(0),
          stop_loss |-> RInt(0), take_profit |-> RInt(0)]

\* self.balance, self.equity_curve, self.trades, self.last_trade_type and
\* the locals, as one record the loop body maps to its successor
BacktesterState ==
    [balance |-> balance, equity_curve |-> equity_curve, trades |-> trades,
     last_trade_type |-> last_trade_type, position |-> run.position,
     entry_price |-> run.entry_price, volume |-> run.volume,
     stop_loss |-> run.stop_loss, take_profit |-> run.take_profit]

Backtester_calculate_position_size(cfg, s, price, atr) ==
    LET sizing_config == cfg.risk_management.position_sizing
    IN  IF sizing_config.type = "fixed"
        THEN sizing_config.fixed_volume
        ELSE LET risk_amount == RMul(s.balance, cfg.risk_management.risk_percentage)
                 stop_loss_pips == RMul(atr, cfg.risk_management.stop_loss_multiplier)
             IN  Round2(RDiv(risk_amount, RMul(stop_loss_pips, RInt(PipValue))))

\* <<stop_loss, take_profit>>; both exit rules are of type 'fixed'
calculate_exit_prices(cfg, entry_price, atr, position_type) ==
    LET sl_config == cfg.trading.exit_rules.stop_loss
        tp_config == cfg.trading.exit_rules.take_profit
    IN  IF position_type = "long"
        THEN <<RSub(entry_price, RMul(atr, sl_config.value)),
               RAdd(entry_price, RMul(atr, tp_config.value))>>
        ELSE <<RAdd(entry_price, RMul(atr, sl_config.value)),
               RSub(entry_price, RMul(atr, tp_config.value))>>

calculate_commission(cfg, volume) ==
    RMul(volume, cfg.risk_management.commission_per_lot)

\* the pnl of a trade that leaves at exit_price (backtester.py:106, 124)
trade_pnl(position_type, entry_price, exit_price, volume) ==
    IF position_type = "long"
    THEN RMul(RMul(RSub(exit_price, entry_price), volume), RInt(ContractSize))
    ELSE RMul(RMul(RSub(entry_price, exit_price), volume), RInt(ContractSize))

\* variant: check_exit with the take-profit level tested first
check_exit_take_profit_first(cfg, s, row, index) ==
    IF s.position = None THEN s
    ELSE LET side == s.position[1]
             unrealized_pnl == trade_pnl(side, s.entry_price, row.close, s.volume)
             s1 == [s EXCEPT !.equity_curve =
                        Append(s.equity_curve, RAdd(s.balance, unrealized_pnl))]
             hit_stop == IF side = "long" THEN RLe(row.low, s.stop_loss)
                         ELSE RLe(s.stop_loss, row.high)
             hit_take == IF side = "long" THEN RLe(s.take_profit, row.high)
                         ELSE RLe(row.low, s.take_profit)
             exit_price == IF hit_take THEN s.take_profit ELSE s.stop_loss
             pnl == trade_pnl(side, s.entry_price, exit_price, s.volume)
             commission == calculate_commission(cfg, s.volume)
         IN  IF hit_stop \/ hit_take
             THEN [s1 EXCEPT
                     !.balance = RAdd(s.balance, RSub(pnl, commission)),
                     !.last_trade_type = Some(side),
                     !.position = None,
                     !.trades = Append(s.trades,
                         [type |-> side, entry |-> s.entry_price,
                          exit |-> exit_price, volume |-> s.volume,
                          pnl |-> pnl, commission |-> commission,
                          time |-> index])]
             ELSE s1

\* first half of the loop body: with a position open, the equity sample and
\* the stop-loss / take-profit check  (backtester.py:93-138)
check_exit(cfg, s, row, index) ==
    IF s.position = None THEN s
    ELSE LET side == s.position[1]
             unrealized_pnl == trade_pnl(side, s.entry_price, row.close, s.volume)
             s1 == [s EXCEPT !.equity_curve =
                        Append(s.equity_curve, RAdd(s.balance, unrealized_pnl))]
             hit_stop == IF side = "long" THEN RLe(row.low, s.stop_loss)
                         ELSE RLe(s.stop_loss, row.high)
             hit_take == IF side = "long" THEN RLe(s.take_profit, row.high)
                         ELSE RLe(row.low, s.take_profit)
             exit_price == IF hit_stop THEN s.stop_loss ELSE s.take_profit
             pnl == trade_pnl(side, s.entry_price, exit_price, s.volume)
             commission == calculate_commission(cfg, s.volume)
         IN  IF hit_stop \/ hit_take
             THEN [s1 EXCEPT
                     !.balance = RAdd(s.balance, RSub(pnl, commission)),
                     !.last_trade_type = Some(side),
                     !.position = None,
                     !.trades = Append(s.trades,
                         [type |-> side, entry |-> s.entry_price,
                          exit |-> exit_price, volume |-> s.volume,
                          pnl |-> pnl, commission |-> commission,
                          time |-> index])]
             ELSE s1

\* second half: with no position open, the entry signals  (backtester.py:141-161)
\* the entry part with the short branch tested before the long branch
check_entry_short_first(cfg, s, row) ==
    IF s.position # None THEN s
    ELSE LET can_open_long ==
                 row.long_signal /\ (cfg.trading.allow_consecutive_trades
                                     \/ s.last_trade_type # Some("long"))
             can_open_short ==
                 row.short_signal /\ (cfg.trading.allow_consecutive_trades
                                      \/ s.last_trade_type # Some("short"))
             side == IF can_open_short THEN "short" ELSE "long"
             levels == calculate_exit_prices(cfg, row.close, row.ATR, side)
         IN  IF can_open_long \/ can_open_short
             THEN [s EXCEPT
                     !.volume = Backtester_calculate_position_size(
                                    cfg, s, row.close, row.ATR),
                     !.entry_price = row.close,
                     !.stop_loss = levels[1],
                     !.take_profit = levels[2],
                     !.position = Some(side)]
             ELSE s

check_entry(cfg, s, row) ==
    IF s.position # None THEN s
    ELSE LET can_open_long ==
                 row.long_signal /\ (cfg.trading.allow_consecutive_trades
                                     \/ s.last_trade_type # Some("long"))
             can_open_short ==
                 row.short_signal /\ (cfg.trading.allow_consecutive_trades
                                      \/ s.last_trade_type # Some("short"))
             side == IF can_open_long THEN "long" ELSE "short"
             levels == calculate_exit_prices(cfg, row.close, row.ATR, side)
         IN  IF can_open_long \/ can_open_short
             THEN [s EXCEPT
                     !.volume = Backtester_calculate_position_size(
                                    cfg, s, row.close, row.ATR),
                     !.entry_price = row.close,
                     !.stop_loss = levels[1],
                     !.take_profit = levels[2],
                     !.position = Some(side)]
             ELSE s

\* the loop body with the two parts in the other order
run_backtest_row_entry_first(cfg, s, row, index) ==
    check_exit(cfg, check_entry(cfg, s, row), row, index)

run_backtest_row(cfg, s, row, index) ==
    check_entry(cfg, check_exit(cfg, s, row, index), row)

-----------------------------------------------------------------------------
(* PerformanceAnalyzer  (src/backtester/performance.py)                    *)
(* numpy float64 results that need not be finite are rationals extended by *)
(* NaN, PosInf and NegInf, written with denominator 0.                     *)

NaN == <<0, 0>>
PosInf == <<1, 0>>
NegInf == <<-1, 0>>
IsFinite(x) == x[2] # 0

\* float64 division: dividing by zero gives inf or nan, it does not raise
FDiv(a, b) ==
    IF a = NaN \/ b = NaN THEN NaN
    ELSE IF IsFinite(a) /\ IsFinite(b)
         THEN IF b[1] # 0 THEN RDiv(a, b)
              ELSE IF a[1] > 0 THEN PosInf
              ELSE IF a[1] < 0 THEN NegInf
              ELSE NaN
    ELSE IF IsFinite(b)
         THEN IF (a[1] > 0) = (b[1] >= 0) THEN PosInf ELSE NegInf
    ELSE IF IsFinite(a) THEN RInt(0)
    ELSE NaN

RAbs(a) == <<Abs(a[1]), a[2]>>

RECURSIVE SeqSum(_)
SeqSum(xs) == IF xs = << >> THEN RInt(0) ELSE RAdd(Head(xs), SeqSum(Tail(xs)))

\* Series.mean(): nan for an empty series
Mean(xs) == IF xs = << >> THEN NaN ELSE RDiv(SeqSum(xs), RInt(Len(xs)))

IsProfit(pnl) == RLt(RInt(0), pnl)
IsLoss(pnl) == RLt(pnl, RInt(0))

\* the pnl column as a series of the values it holds: the None of an 'open'
\* row is NaN in the frame, satisfies no comparison and is skipped by sums
PnlColumn(trade_log) ==
    LET rows == SelectSeq(trade_log, LAMBDA t : t.pnl # None)
    IN  [i \in 1..Len(rows) |-> rows[i].pnl[1]]

\* the pnl column of the 'close' rows
ClosedPnls(trade_log) ==
    PnlColumn(SelectSeq(trade_log, LAMBDA t : t.action = "close"))

\* _calculate_profit_factor: np.sum(profits) / np.sum(abs(losses))
calculate_profit_factor(trade_log) ==
    FDiv(SeqSum(SelectSeq(PnlColumn(trade_log), IsProfit)),
         RAbs(SeqSum(SelectSeq(PnlColumn(trade_log), IsLoss))))

\* equity_curve.expanding().max() at position i
RECURSIVE ExpandingMax(_, _)
ExpandingMax(xs, i) ==
    IF i = 1 THEN xs[1]
    ELSE LET m == ExpandingMax(xs, i - 1)
         IN  IF RLe(xs[i], m) THEN m ELSE xs[i]

\* (equity_curve - rolling_max) / rolling_max, for positive equity
Drawdowns(xs) ==
    [i \in 1..Len(xs) |->
        RDiv(RSub(xs[i], ExpandingMax(xs, i)), ExpandingMax(xs, i))]

RECURSIVE SeqMin(_)
SeqMin(xs) ==
    IF Len(xs) = 1 THEN xs[1] ELSE RMin(Head(xs), SeqMin(Tail(xs)))

\* _calculate_max_drawdown: abs(drawdowns.min())
PerformanceAnalyzer_calculate_max_drawdown(equity_values) ==
    RAbs(SeqMin(Drawdowns(equity_values)))

\* equity_curve.pct_change().dropna(), for positive equity
PctChange(xs) ==
    [i \in 1..(Len(xs) - 1) |-> RSub(RDiv(xs[i + 1], xs[i]), RInt(1))]

PeriodsPerYear == 252

\* a ratio sqrt(periods) * mean / sqrt(q) is carried as sign(r) * r^2,
\* which is nan, infinite or zero exactly when the ratio r is
SignedSquareRatio(mean, q) ==
    IF mean = NaN \/ q = NaN THEN NaN
    ELSE FDiv(RMul(RInt(PeriodsPerYear), RMul(mean, RAbs(mean))), q)

\* Series.std() squared: nan below two samples
Variance(xs) ==
    IF Len(xs) < 2 THEN NaN
    ELSE LET m == Mean(xs)
             sq == [i \in 1..Len(xs) |-> RMul(RSub(xs[i], m), RSub(xs[i], m))]
         IN  RDiv(SeqSum(sq), RInt(Len(xs) - 1))

\* _calculate_sharpe_ratio with risk_free_rate 0, as sign(r) * r^2
calculate_sharpe_ratio(returns) == SignedSquareRatio(Mean(returns), Variance(returns))

\* _calculate_sortino_ratio with risk_free_rate 0, as sign(r) * r^2:
\* downside_std is sqrt(np.mean(downside_returns ** 2)), nan for no downside
calculate_sortino_ratio(returns) ==
    LET downside_returns == SelectSeq(returns, IsLoss)
        squares == [i \in 1..Len(downside_returns) |->
                       RMul(downside_returns[i], downside_returns[i])]
    IN  SignedSquareRatio(Mean(returns), Mean(squares))

calculate_calmar_ratio(returns, max_drawdown) ==
    IF Mean(returns) = NaN THEN NaN
    ELSE FDiv(RMul(Mean(returns), RInt(PeriodsPerYear)), max_drawdown)

\* _calculate_avg_trade_duration: for every 'close' row the time from the
\* FIRST 'open' row of the frame to the row's timestamp, in hours
calculate_avg_trade_duration(trade_log) ==
    LET opens == SelectSeq(trade_log, LAMBDA t : t.action = "open")
        closes == SelectSeq(trade_log, LAMBDA t : t.action = "close")
    IN  Mean([i \in 1..Len(closes) |->
                 RInt(closes[i].timestamp - opens[1].timestamp)])

\* PerformanceAnalyzer.calculate for a non-empty history; the Sharpe and
\* Sortino entries hold sign(r) * r^2 of the ratio r
calculate(trade_log, final_equity) ==
    LET gross_profit == SeqSum(SelectSeq(PnlColumn(trade_log), IsProfit))
        gross_loss == RAbs(SeqSum(SelectSeq(PnlColumn(trade_log), IsLoss)))
        total_trades == Len(SelectSeq(trade_log, LAMBDA t : t.action = "close"))
        winning_trades == Len(SelectSeq(ClosedPnls(trade_log), IsProfit))
        equity_values == [i \in 1..Len(trade_log) |-> trade_log[i].equity]
        max_drawdown == PerformanceAnalyzer_calculate_max_drawdown(equity_values)
        returns == PctChange(equity_values)
    IN  [total_trades |-> total_trades,
         winning_trades |-> winning_trades,
         losing_trades |-> Len(SelectSeq(ClosedPnls(trade_log), IsLoss)),
         win_rate |-> IF total_trades > 0
                      THEN Rat(winning_trades, total_trades) ELSE RInt(0),
         gross_profit |-> gross_profit,
         gross_loss |-> gross_loss,
         net_profit |-> RSub(gross_profit, gross_loss),
         profit_factor |-> calculate_profit_factor(trade_log),
         max_drawdown |-> max_drawdown,
         sharpe_ratio |-> calculate_sharpe_ratio(returns),
         final_equity |-> final_equity,
         sortino_ratio |-> calculate_sortino_ratio(returns),
         calmar_ratio |-> calculate_calmar_ratio(returns, max_drawdown),
         average_trade_duration |-> calculate_avg_trade_duration(trade_log)]

\* Backtester.calculate_max_drawdown: drawdown.min(), nan for an empty curve
Backtester_calculate_max_drawdown(curve) ==
    IF curve = << >> THEN NaN ELSE SeqMin(Drawdowns(curve))

-----------------------------------------------------------------------------
(* Specification Spec: a caller driving one Portfolio through its public   *)
(* methods with Position objects it constructs and keeps references to.    *)

EmptyMap == [s \in {} |-> 0]

Init ==
    /\ initial_capital \in InitialCapitals
    /\ cash = initial_capital
    /\ equity = initial_capital
    /\ heap = << >>
    /\ positions = EmptyMap
    /\ closed_positions = << >>
    /\ trade_history = << >>
    /\ config = EmptyMap
    /\ engine_positions = << >>
    /\ history = << >>
    /\ bar = None
    /\ bar_index = 0
    /\ initial_balance = RInt(0)
    /\ balance = RInt(0)
    /\ equity_curve = << >>
    /\ trades = << >>
    /\ last_trade_type = None
    /\ run = NoRun
    /\ results = None
    /\ optimizer = None
    /\ lastOp = [op |-> "init", ref |-> 0, result |-> "ok"]

\* position = Position(...); portfolio.add_position(position)
AddPosition ==
    \E symbol \in Symbols, direction \in Directions,
       entry_price \in Prices, size \in Sizes :
        /\ Len(heap) < MaxHeap
        /\ LET ref == Len(heap) + 1
               w0 == [World EXCEPT !.heap = Append(heap,
                         Position(symbol, direction, entry_price, size, ref))]
           IN  IF add_position_accepts(w0, ref)
               THEN /\ Commit(add_position(w0, ref))
                    /\ lastOp' = [op |-> "add_position", ref |-> ref,
                                  result |-> "ok"]
               ELSE /\ Commit(w0)
                    /\ lastOp' = [op |-> "add_position", ref |-> ref,
                                  result |-> "ValueError"]
        /\ UNCHANGED <<optimizer, results, initial_capital, config, bar, bar_index, backtesterVars>>

\* portfolio.remove_position(position, exit_price) on any position the caller holds
RemovePosition ==
    \E ref \in DOMAIN heap, exit_price \in Prices, now \in WallClock :
        /\ Commit(remove_position(World, ref, exit_price, now))
        /\ lastOp' = [op |-> "remove_position", ref |-> ref,
                      result |-> IF heap[ref].symbol \in DOMAIN positions
                                 THEN "ok" ELSE "noop"]
        /\ UNCHANGED <<optimizer, results, initial_capital, config, bar, bar_index, backtesterVars>>

\* portfolio.update_equity()
UpdateEquity ==
    /\ Commit(update_equity(World))
    /\ lastOp' = [op |-> "update_equity", ref |-> 0, result |-> "ok"]
    /\ UNCHANGED <<optimizer, results, initial_capital, config, bar, bar_index, backtesterVars>>

Next == AddPosition \/ RemovePosition \/ UpdateEquity

Spec == Init /\ [][Next]_vars

-----------------------------------------------------------------------------
(* Specification SpecEngine: VectorizedBacktestEngine.run, one step per    *)
(* row of the price series  (src/backtester/vector_engine.py:16-26).       *)

EngineInit ==
    /\ config \in Configs
    /\ initial_capital = config.risk_management.initial_capital
    /\ cash = initial_capital
    /\ equity = initial_capital
    /\ heap = << >>
    /\ positions = EmptyMap
    /\ closed_positions = << >>
    /\ trade_history = << >>
    /\ engine_positions = << >>
    /\ history = << >>
    /\ bar = None
    /\ bar_index = 0
    /\ initial_balance = RInt(0)
    /\ balance = RInt(0)
    /\ equity_curve = << >>
    /\ trades = << >>
    /\ last_trade_type = None
    /\ run = NoRun
    /\ results = None
    /\ optimizer = None
    /\ lastOp = [op |-> "init", ref |-> 0, result |-> "ok"]

\* a row for which generate_signals returns nothing: update_positions only
BarWithoutSignals ==
    \E row \in Bars, nows \in [1..Len(engine_positions) -> WallClock] :
        /\ bar_index < MaxBars
        /\ Commit(update_positions(config, World, row, nows))
        /\ bar' = Some(row)
        /\ bar_index' = bar_index + 1
        /\ lastOp' = [op |-> "bar", ref |-> 0, result |-> "no_signals"]
        /\ UNCHANGED <<optimizer, results, initial_capital, config, backtesterVars>>

\* a row with a signal: update_positions, then process_signals
BarWithSignals ==
    \E row \in Bars, nows \in [1..Len(engine_positions) -> WallClock] :
      \E signals \in SignalsFor(row) :
        /\ bar_index < MaxBars
        /\ LET timestamp == bar_index + 1
               w1 == update_positions(config, World, row, nows)
               outcome == process_signals_outcome(config, w1, signals)
           IN  /\ Commit(process_signals(config, w1, signals, timestamp))
               /\ lastOp' = [op |-> "bar",
                             ref |-> IF outcome = "opened"
                                     THEN Len(w1.heap) + 1 ELSE 0,
                             result |-> outcome]
        /\ bar' = Some(row)
        /\ bar_index' = bar_index + 1
        /\ UNCHANGED <<optimizer, results, initial_capital, config, backtesterVars>>

EngineNext == BarWithoutSignals \/ BarWithSignals

SpecEngine == EngineInit /\ [][EngineNext]_vars

-----------------------------------------------------------------------------
(* Specification SpecBacktester: Backtester.run_backtest, one step per row *)
(* of the data frame  (src/backtester.py:91-161).                          *)

BacktesterInit ==
    /\ config \in BacktesterConfigs
    /\ initial_balance = RInt(DefaultInitialBalance)
    /\ balance = initial_balance
    /\ equity_curve = << >>
    /\ trades = << >>
    /\ last_trade_type = None
    /\ run = NoRun
    /\ results = None
    /\ optimizer = None
    /\ bar = None
    /\ bar_index = 0
    /\ initial_capital = RInt(0)
    /\ cash = RInt(0)
    /\ equity = RInt(0)
    /\ heap = << >>
    /\ positions = EmptyMap
    /\ closed_positions = << >>
    /\ trade_history = << >>
    /\ engine_positions = << >>
    /\ history = << >>
    /\ lastOp = [op |-> "init", ref |-> 0, result |-> "ok"]

BacktestRow ==
    \E row \in DataRows :
        /\ bar_index < MaxRows
        /\ LET s == run_backtest_row(config, BacktesterState, row, bar_index + 1)
           IN  /\ balance' = s.balance
               /\ equity_curve' = s.equity_curve
               /\ trades' = s.trades
               /\ last_trade_type' = s.last_trade_type
               /\ run' = [position |-> s.position, entry_price |-> s.entry_price,
                          volume |-> s.volume, stop_loss |-> s.stop_loss,
                          take_profit |-> s.take_profit]
               /\ lastOp' = [op |-> "row", ref |-> 0,
                             result |-> IF Len(s.trades) > Len(trades)
                                        THEN "closed" ELSE "ok"]
        /\ bar' = Some(row)
        /\ bar_index' = bar_index + 1
        /\ UNCHANGED <<optimizer, results, initial_balance, config, portfolioVars>>

BacktesterNext == BacktestRow

SpecBacktester == BacktesterInit /\ [][BacktesterNext]_vars

-----------------------------------------------------------------------------
(* Specification SpecSimulation: any one of the three runs above, told     *)
(* apart by the configuration it was started with.                         *)

SimulationInit == Init \/ EngineInit \/ BacktesterInit

PortfolioStep == config = EmptyMap /\ Next
EngineStep == "trading_costs" \in DOMAIN config /\ EngineNext
BacktesterStep ==
    /\ "trading" \in DOMAIN config
    /\ "trading_costs" \notin DOMAIN config
    /\ BacktesterNext

SimulationNext == PortfolioStep \/ EngineStep \/ BacktesterStep

SpecSimulation == SimulationInit /\ [][SimulationNext]_vars

-----------------------------------------------------------------------------
(* Specification SpecLockstep: the two traversal modes side by side on the *)
(* same configuration, price series and signal sequence: each step hands   *)
(* one row to the loop body of Backtester.run_backtest and to the loop     *)
(* body of VectorizedBacktestEngine.run.                                   *)

\* one configuration with the keys both modes read; the engine is held to
\* one open trade and starts from the Backtester's initial balance
LockstepConfigs ==
    {[symbol |-> "EURUSD",
      risk_management |->
         [initial_capital |-> RInt(DefaultInitialBalance),
          max_open_trades |-> 1,
          risk_percentage |-> c.risk_management.risk_percentage,
          stop_loss_multiplier |-> c.risk_management.stop_loss_multiplier,
          take_profit_multiplier |-> Rat(3, 4),
          commission_per_lot |-> c.risk_management.commission_per_lot,
          position_sizing |-> c.risk_management.position_sizing],
      trading |->
         [allow_consecutive_trades |-> c.trading.allow_consecutive_trades,
          exit_rules |-> c.trading.exit_rules,
          volume |-> c.risk_management.position_sizing.fixed_volume],
      trading_costs |-> NoCosts] : c \in BacktesterConfigs}

\* the strategy of the vectorized run on a row of the annotated series:
\* a signal dictionary in the shape generate_signals builds, long when the
\* row carries long_signal, else short when it carries short_signal, and
\* nothing when it carries neither
LockstepSignals(cfg, row) ==
    IF row.long_signal \/ row.short_signal
    THEN Some([symbol |-> cfg.symbol,
               direction |-> IF row.long_signal THEN "long" ELSE "short",
               price |-> row.close,
               volume |-> cfg.trading.volume])
    ELSE None

LockstepInit ==
    /\ config \in LockstepConfigs
    /\ initial_capital = config.risk_management.initial_capital
    /\ cash = initial_capital
    /\ equity = initial_capital
    /\ heap = << >>
    /\ positions = EmptyMap
    /\ closed_positions = << >>
    /\ trade_history = << >>
    /\ engine_positions = << >>
    /\ history = << >>
    /\ initial_balance = RInt(DefaultInitialBalance)
    /\ balance = initial_balance
    /\ equity_curve = << >>
    /\ trades = << >>
    /\ last_trade_type = None
    /\ run = NoRun
    /\ results = None
    /\ optimizer = None
    /\ bar = None
    /\ bar_index = 0
    /\ lastOp = [op |-> "init", ref |-> 0, result |-> "ok"]

LockstepRow ==
    \E row \in DataRows, nows \in [1..Len(engine_positions) -> WallClock] :
        /\ bar_index < MaxRows
        /\ LET s == run_backtest_row(config, BacktesterState, row, bar_index + 1)
               w1 == update_positions(config, World, row, nows)
               signals == LockstepSignals(config, row)
           IN  /\ balance' = s.balance
               /\ equity_curve' = s.equity_curve
               /\ trades' = s.trades
               /\ last_trade_type' = s.last_trade_type
               /\ run' = [position |-> s.position, entry_price |-> s.entry_price,
                          volume |-> s.volume, stop_loss |-> s.stop_loss,
                          take_profit |-> s.take_profit]
               /\ IF signals = None
                  THEN /\ Commit(w1)
                       /\ lastOp' = [op |-> "row", ref |-> 0,
                                     result |-> "no_signals"]
                  ELSE /\ Commit(process_signals(config, w1, signals[1],
                                                 bar_index + 1))
                       /\ lastOp' = [op |-> "row", ref |-> 0,
                                     result |-> process_signals_outcome(
                                                    config, w1, signals[1])]
        /\ bar' = Some(row)
        /\ bar_index' = bar_index + 1
        /\ UNCHANGED <<optimizer, results, initial_capital, initial_balance, config>>

LockstepNext == LockstepRow

SpecLockstep == LockstepInit /\ [][LockstepNext]_vars

-----------------------------------------------------------------------------
(* Specification SpecStrategy: VectorizedBacktestEngine.run with a         *)
(* BaseStrategy whose generate_signals returns validate_signals(raw) for a *)
(* raw dictionary that may lack any of its fields.                         *)

SignalFields == {"symbol", "direction", "price", "volume"}

\* the raw dictionaries of a row: {} or a signal at the row's close with
\* any of its fields left out
RawSignalsFor(row) ==
    {EmptyMap} \cup
    {[k \in present |-> full[k]] :
        full \in {[symbol |-> sy, direction |-> d, price |-> row.close,
                   volume |-> SignalVolume] : sy \in Symbols, d \in Directions},
        present \in (SUBSET SignalFields) \ {{}}}

\* BaseStrategy.validate_signals: {} unless direction, price and volume are
\* all present; it does not look for symbol
validate_signals(signals) ==
    IF signals = EmptyMap THEN EmptyMap
    ELSE IF \E field \in {"direction", "price", "volume"} :
                field \notin DOMAIN signals
         THEN EmptyMap
         ELSE signals

\* the signal with the fields it lacks filled in, to evaluate the part of
\* process_signals that does not read them
Filled(signals) ==
    [k \in SignalFields |->
        IF k \in DOMAIN signals THEN signals[k]
        ELSE IF k \in {"symbol", "direction"} THEN "None" ELSE RInt(0)]

\* how process_signals ends for any dictionary: signals['price'] and
\* signals['volume'] are read first (engine.py:77), signals['symbol'] and
\* signals['direction'] when the Position is constructed (engine.py:53-59);
\* reading an absent key raises KeyError
process_signals_raw_outcome(cfg, w, signals) ==
    IF signals = EmptyMap THEN "no_signals"
    ELSE IF ~({"price", "volume"} \subseteq DOMAIN signals) THEN "KeyError"
    ELSE LET outcome == process_signals_outcome(cfg, w, Filled(signals))
         IN  IF /\ outcome \in {"opened", "ValueError"}
                /\ ~({"symbol", "direction"} \subseteq DOMAIN signals)
             THEN "KeyError"
             ELSE outcome

\* one row of the run; a KeyError leaves run() and ends it
BarWithRawSignals ==
    \E row \in Bars, nows \in [1..Len(engine_positions) -> WallClock] :
      \E raw \in RawSignalsFor(row) :
        /\ bar_index < MaxBars
        /\ lastOp.result # "KeyError"
        /\ LET timestamp == bar_index + 1
               w1 == update_positions(config, World, row, nows)
               signals == validate_signals(raw)
               outcome == process_signals_raw_outcome(config, w1, signals)
           IN  /\ IF outcome \in {"no_signals", "KeyError"}
                  THEN Commit(w1)
                  ELSE Commit(process_signals(config, w1, signals, timestamp))
               /\ lastOp' = [op |-> "bar",
                             ref |-> IF outcome = "opened"
                                     THEN Len(w1.heap) + 1 ELSE 0,
                             result |-> outcome,
                             missing |-> IF raw = EmptyMap THEN {}
                                         ELSE SignalFields \ DOMAIN raw]
        /\ bar' = Some(row)
        /\ bar_index' = bar_index + 1
        /\ UNCHANGED <<optimizer, results, initial_capital, config, backtesterVars>>

StrategyNext == BarWithRawSignals

SpecStrategy == EngineInit /\ [][StrategyNext]_vars

-----------------------------------------------------------------------------
(* Specification SpecAnalyzer: the statistics computed at the end of a     *)
(* run: PerformanceAnalyzer.calculate on the engine's history, and         *)
(* Backtester.calculate_max_drawdown on the Backtester's equity curve.     *)

EquityInts == {90, 100, 110, 120}
PnlInts == {-1, 0, 1}
HistoryLens == 2..4
CurveLens == 1..4

\* what a row of the history says of its trade: opened, or closed with a pnl
TradeEvents ==
    {[action |-> "open", pnl |-> None]} \cup
    {[action |-> "close", pnl |-> Some(RInt(n))] : n \in PnlInts}

CountEvents(events, n, action) ==
    Cardinality({k \in 1..n : events[k].action = action})

\* a history the engine can have written: no more closes than opens at any
\* point; at least one trade has been closed
EventSeqs(n) ==
    {events \in [1..n -> TradeEvents] :
        /\ \A i \in 1..n : CountEvents(events, i, "close")
                                <= CountEvents(events, i, "open")
        /\ CountEvents(events, n, "close") > 0}

\* the index of the j-th 'open' row
NthOpen(events, j) ==
    CHOOSE i \in DOMAIN events :
        events[i].action = "open" /\ CountEvents(events, i, "open") = j

\* the rows as _record_trade writes them, reduced to the columns calculate
\* reads; a row carries the entry time of its position (engine.py:124), an
\* 'open' row is written at its index (in hours), positions close in the
\* order they were opened
MakeHistory(events, equities) ==
    [i \in DOMAIN events |->
        [action |-> events[i].action,
         pnl |-> events[i].pnl,
         equity |-> RInt(equities[i]),
         timestamp |-> IF events[i].action = "open" THEN i
                       ELSE NthOpen(events, CountEvents(events, i, "close"))]]

Histories ==
    UNION {{MakeHistory(events, equities) :
                events \in EventSeqs(n), equities \in [1..n -> EquityInts]}
           : n \in HistoryLens}

EquityCurves ==
    UNION {{[i \in 1..n |-> RInt(equities[i])] : equities \in [1..n -> EquityInts]}
           : n \in CurveLens}

AnalyzerInit ==
    /\ \/ /\ history \in Histories
          /\ equity = history[Len(history)].equity
          /\ equity_curve = << >>
       \/ /\ history = << >>
          /\ equity = RInt(0)
          /\ equity_curve \in EquityCurves
    /\ results = None
    /\ optimizer = None
    /\ config = EmptyMap
    /\ initial_capital = RInt(0)
    /\ cash = RInt(0)
    /\ heap = << >>
    /\ positions = EmptyMap
    /\ closed_positions = << >>
    /\ trade_history = << >>
    /\ engine_positions = << >>
    /\ bar = None
    /\ bar_index = 0
    /\ initial_balance = RInt(0)
    /\ balance = RInt(0)
    /\ trades = << >>
    /\ last_trade_type = None
    /\ run = NoRun
    /\ lastOp = [op |-> "init", ref |-> 0, result |-> "ok"]

\* results = self.performance.calculate(self.history, self.portfolio.equity, data)
AnalyzerCalculate ==
    /\ history # << >>
    /\ results = None
    /\ results' = Some(calculate(history, equity))
    /\ lastOp' = [op |-> "calculate", ref |-> 0, result |-> "ok"]
    /\ UNCHANGED <<optimizer, initial_capital, config, bar, bar_index,
                   portfolioVars, backtesterVars>>

\* max_drawdown = self.calculate_max_drawdown()
BacktesterMaxDrawdown ==
    /\ equity_curve # << >>
    /\ results = None
    /\ results' = Some([max_drawdown |->
                           Backtester_calculate_max_drawdown(equity_curve)])
    /\ lastOp' = [op |-> "calculate_max_drawdown", ref |-> 0, result |-> "ok"]
    /\ UNCHANGED <<optimizer, initial_capital, config, bar, bar_index,
                   portfolioVars, backtesterVars>>

AnalyzerNext == AnalyzerCalculate \/ BacktesterMaxDrawdown

SpecAnalyzer == AnalyzerInit /\ [][AnalyzerNext]_vars

-----------------------------------------------------------------------------
(* Specification SpecExits: Backtester.run_backtest from the row that      *)
(* opened a position to the row that closes it, over rows that cross the   *)
(* stop-loss, the take-profit, both or neither  (src/backtester.py:91-138).*)

ExitBars ==
    {Row(2, 2, 2), Row(3, 3, 3), Row(1, 2, 1), Row(2, 4, 4), Row(1, 4, 2),
     Row(1, 4, 3), Row(3, 4, 4), Row(1, 3, 1)}

\* the row of the entry: one of the two signals is set
EntryRows ==
    {[low |-> b.low, high |-> b.high, close |-> b.close,
      long_signal |-> l, short_signal |-> ~l, ATR |-> RInt(a)]
     : b \in ExitBars, l \in BOOLEAN, a \in AtrInts}

\* the rows after it: no signal
ExitRows ==
    {[low |-> b.low, high |-> b.high, close |-> b.close,
      long_signal |-> FALSE, short_signal |-> FALSE, ATR |-> RInt(a)]
     : b \in ExitBars, a \in AtrInts}

\* the Backtester as __init__ leaves it, with the locals of run_backtest
NewBacktester(initial) ==
    [balance |-> initial, equity_curve |-> << >>, trades |-> << >>,
     last_trade_type |-> None, position |-> None, entry_price |-> RInt(0),
     volume |-> RInt(0), stop_loss |-> RInt(0), take_profit |-> RInt(0)]

ExitsInit ==
    /\ config \in BacktesterConfigs
    /\ initial_balance = RInt(DefaultInitialBalance)
    /\ \E row \in EntryRows :
         LET s == run_backtest_row(config, NewBacktester(initial_balance), row, 1)
         IN  /\ balance = s.balance
             /\ equity_curve = s.equity_curve
             /\ trades = s.trades
             /\ last_trade_type = s.last_trade_type
             /\ run = [position |-> s.position, entry_price |-> s.entry_price,
                       volume |-> s.volume, stop_loss |-> s.stop_loss,
                       take_profit |-> s.take_profit]
             /\ bar = Some(row)
    /\ bar_index = 1
    /\ results = None
    /\ optimizer = None
    /\ initial_capital = RInt(0)
    /\ cash = RInt(0)
    /\ equity = RInt(0)
    /\ heap = << >>
    /\ positions = EmptyMap
    /\ closed_positions = << >>
    /\ trade_history = << >>
    /\ engine_positions = << >>
    /\ history = << >>
    /\ lastOp = [op |-> "row", ref |-> 0, result |-> "ok"]

\* a further row of the frame while the position is open
ExitRow ==
    \E row \in ExitRows :
        /\ bar_index < MaxRows
        /\ run.position # None
        /\ LET s == run_backtest_row(config, BacktesterState, row, bar_index + 1)
           IN  /\ balance' = s.balance
               /\ equity_curve' = s.equity_curve
               /\ trades' = s.trades
               /\ last_trade_type' = s.last_trade_type
               /\ run' = [position |-> s.position, entry_price |-> s.entry_price,
                          volume |-> s.volume, stop_loss |-> s.stop_loss,
                          take_profit |-> s.take_profit]
               /\ lastOp' = [op |-> "row", ref |-> 0,
                             result |-> IF Len(s.trades) > Len(trades)
                                        THEN "closed" ELSE "ok"]
        /\ bar' = Some(row)
        /\ bar_index' = bar_index + 1
        /\ UNCHANGED <<optimizer, results, initial_balance, config, portfolioVars>>

ExitsNext == ExitRow

SpecExits == ExitsInit /\ [][ExitsNext]_vars

-----------------------------------------------------------------------------
(* Specification SpecConfig: Backtester(config) followed by run_backtest,  *)
(* for configurations that lack one of the keys the code looks up          *)
(* (src/backtester.py:12-70).  A failed lookup raises KeyError and ends    *)
(* the call.                                                               *)

\* dict without a key
Drop(d, key) == [k \in DOMAIN d \ {key} |-> d[k]]

\* a complete configuration, or one with a key left out
PartialConfigs ==
    UNION {{c,
            [c EXCEPT !.risk_management = Drop(@, "commission_per_lot")],
            [c EXCEPT !.risk_management = Drop(@, "position_sizing")],
            [c EXCEPT !.trading = Drop(@, "exit_rules")],
            Drop(c, "trading")} : c \in BacktesterConfigs}

\* the lookups of __init__: config['risk_management']['commission_per_lot']
\* and config['trading']
init_lookups_succeed(cfg) ==
    /\ "risk_management" \in DOMAIN cfg
    /\ "commission_per_lot" \in DOMAIN cfg.risk_management
    /\ "trading" \in DOMAIN cfg

\* the lookups of calculate_position_size and calculate_exit_prices, made
\* when a row opens a position
entry_lookups_succeed(cfg) ==
    /\ "position_sizing" \in DOMAIN cfg.risk_management
    /\ "exit_rules" \in DOMAIN cfg.trading

\* the row reaches the entry branch with a signal it may act on
\* (backtester.py:141-151, 157)
opens_position(cfg, s, row) ==
    /\ s.position = None
    /\ \/ row.long_signal /\ (cfg.trading.allow_consecutive_trades
                              \/ s.last_trade_type # Some("long"))
       \/ row.short_signal /\ (cfg.trading.allow_consecutive_trades
                               \/ s.last_trade_type # Some("short"))

ConfigInit ==
    /\ config \in PartialConfigs
    /\ initial_balance = RInt(DefaultInitialBalance)
    /\ balance = initial_balance
    /\ equity_curve = << >>
    /\ trades = << >>
    /\ last_trade_type = None
    /\ run = NoRun
    /\ results = None
    /\ optimizer = None
    /\ bar = None
    /\ bar_index = 0
    /\ initial_capital = RInt(0)
    /\ cash = RInt(0)
    /\ equity = RInt(0)
    /\ heap = << >>
    /\ positions = EmptyMap
    /\ closed_positions = << >>
    /\ trade_history = << >>
    /\ engine_positions = << >>
    /\ history = << >>
    /\ lastOp = [op |-> "new", ref |-> 0, result |-> "pending"]

\* backtester = Backtester(config)
Construct ==
    /\ lastOp.op = "new"
    /\ lastOp' = [op |-> "__init__", ref |-> 0,
                  result |-> IF init_lookups_succeed(config)
                             THEN "ok" ELSE "KeyError"]
    /\ UNCHANGED <<optimizer, results, initial_balance, config, bar, bar_index,
                   portfolioVars, backtesterVars>>

\* one row of run_backtest; a KeyError leaves the loop after the exit check
\* of the row has been applied
ConfigRow ==
    \E row \in DataRows :
        /\ lastOp.op # "new"
        /\ lastOp.result # "KeyError"
        /\ bar_index < MaxRows
        /\ LET s1 == check_exit(config, BacktesterState, row, bar_index + 1)
               raises == /\ opens_position(config, s1, row)
                         /\ ~entry_lookups_succeed(config)
               s == IF raises THEN s1 ELSE check_entry(config, s1, row)
           IN  /\ balance' = s.balance
               /\ equity_curve' = s.equity_curve
               /\ trades' = s.trades
               /\ last_trade_type' = s.last_trade_type
               /\ run' = [position |-> s.position, entry_price |-> s.entry_price,
                          volume |-> s.volume, stop_loss |-> s.stop_loss,
                          take_profit |-> s.take_profit]
               /\ lastOp' = [op |-> "row", ref |-> 0,
                             result |-> IF raises THEN "KeyError"
                                        ELSE IF Len(s.trades) > Len(trades)
                                        THEN "closed" ELSE "ok"]
        /\ bar' = Some(row)
        /\ bar_index' = bar_index + 1
        /\ UNCHANGED <<optimizer, results, initial_balance, config, portfolioVars>>

ConfigNext == Construct \/ ConfigRow

SpecConfig == ConfigInit /\ [][ConfigNext]_vars

-----------------------------------------------------------------------------
(* StrategyOptimizer  (src/optimizer.py)                                   *)

\* float comparison a > b: false when either side is nan
FGt(a, b) ==
    IF a = NaN \/ b = NaN THEN FALSE
    ELSE IF ~IsFinite(a) THEN a = PosInf /\ b # PosInf
    ELSE IF ~IsFinite(b) THEN b = NegInf
    ELSE RLt(b, a)

\* float product with a finite non-zero factor k
FScale(x, k) ==
    IF IsFinite(x) THEN RMul(x, k)
    ELSE IF x = NaN THEN NaN
    ELSE IF (x = PosInf) = (k[1] > 0) THEN PosInf ELSE NegInf

StopLossKey == "trading.exit_rules.stop_loss.value"
TakeProfitKey == "trading.exit_rules.take_profit.value"

\* itertools.product over the value lists, the last key varying fastest;
\* param_ranges is the dict as a sequence of <<key, values>> pairs
RECURSIVE define_parameters(_)
define_parameters(param_ranges) ==
    IF param_ranges = << >> THEN <<EmptyMap>>
    ELSE LET key == Head(param_ranges)[1]
             values == Head(param_ranges)[2]
             rest == define_parameters(Tail(param_ranges))
         IN  [n \in 1..(Len(values) * Len(rest)) |->
                 LET v == values[((n - 1) \div Len(rest)) + 1]
                     r == rest[((n - 1) % Len(rest)) + 1]
                 IN  [k \in DOMAIN r \cup {key} |-> IF k = key THEN v ELSE r[k]]]

\* the loop writing every dotted key of params into the copied config
apply_params(cfg, params) ==
    LET c1 == IF StopLossKey \in DOMAIN params
              THEN [cfg EXCEPT !.trading.exit_rules.stop_loss.value =
                                   RInt(params[StopLossKey])]
              ELSE cfg
    IN  IF TakeProfitKey \in DOMAIN params
        THEN [c1 EXCEPT !.trading.exit_rules.take_profit.value =
                            RInt(params[TakeProfitKey])]
        ELSE c1

\* Backtester.run_backtest: the loop body over the rows of the frame
RECURSIVE run_backtest(_, _, _, _)
run_backtest(cfg, s, data, index) ==
    IF index > Len(data) THEN s
    ELSE run_backtest(cfg, run_backtest_row(cfg, s, data[index], index),
                      data, index + 1)

\* variant: generate_report with 'Net Profit' before commissions
generate_report_gross(s) ==
    IF s.trades = << >> THEN None
    ELSE LET pnls == [i \in 1..Len(s.trades) |-> s.trades[i].pnl]
             wins == SeqSum(SelectSeq(pnls, IsProfit))
             losses == SelectSeq(pnls, IsLoss)
         IN  Some([Final_Balance |-> s.balance,
                   Net_Profit |-> SeqSum(pnls),
                   Max_Drawdown |->
                       FScale(Backtester_calculate_max_drawdown(s.equity_curve),
                              RInt(100)),
                   Profit_Factor |-> IF losses # << >>
                                     THEN RAbs(RDiv(wins, SeqSum(losses)))
                                     ELSE PosInf])

\* Backtester.generate_report: None without trades, else the entries the
\* optimizer reads
generate_report(s) ==
    IF s.trades = << >> THEN None
    ELSE LET pnls == [i \in 1..Len(s.trades) |-> s.trades[i].pnl]
             commissions == [i \in 1..Len(s.trades) |-> s.trades[i].commission]
             wins == SeqSum(SelectSeq(pnls, IsProfit))
             losses == SelectSeq(pnls, IsLoss)
         IN  Some([Final_Balance |-> s.balance,
                   Net_Profit |-> RSub(SeqSum(pnls), SeqSum(commissions)),
                   Max_Drawdown |->
                       FScale(Backtester_calculate_max_drawdown(s.equity_curve),
                              RInt(100)),
                   Profit_Factor |-> IF losses # << >>
                                     THEN RAbs(RDiv(wins, SeqSum(losses)))
                                     ELSE PosInf])

DefaultMetrics == <<"profit_factor", "sharpe_ratio", "max_drawdown", "net_profit">>

ScoreKey(metric) == metric \o "_score"

\* the score of one metric from a report
metric_score(metric, report, initial) ==
    IF metric = "sharpe_ratio"
    THEN LET total_return == RDiv(RSub(report.Final_Balance, initial), initial)
         IN  IF RLe(RInt(0), total_return)
             THEN RMul(total_return, RInt(100)) ELSE NegInf
    ELSE IF metric = "profit_factor" THEN report.Profit_Factor
    ELSE IF metric = "max_drawdown" THEN FScale(report.Max_Drawdown, RInt(-1))
    ELSE IF metric = "net_profit" THEN report.Net_Profit
    ELSE NegInf

\* _evaluate_parameters_multi_metric as [outcome, params, scores]: fetched is
\* what get_historical_data returned, None or the frame with its signals
evaluate_parameters_multi_metric(params, metrics, cfg, fetched, initial) ==
    LET test_config == apply_params(cfg, params)
        names == {metrics[i] : i \in DOMAIN metrics}
        keys == {ScoreKey(m) : m \in names}
    IN  IF fetched = None
        THEN [outcome |-> "no_data", params |-> params,
              scores |-> [m \in names |-> NegInf]]
        ELSE IF ~init_lookups_succeed(test_config)
        THEN [outcome |-> "error", params |-> params,
              scores |-> [k \in keys |-> NegInf]]
        ELSE LET backtester == run_backtest(test_config, NewBacktester(initial),
                                            fetched[1], 1)
                 report == generate_report(backtester)
             IN  IF report = None
                 THEN [outcome |-> "no_trades", params |-> params,
                       scores |-> [k \in keys |-> NegInf]]
                 ELSE [outcome |-> "report", params |-> params,
                       scores |-> [k \in keys |->
                           metric_score(
                               CHOOSE m \in names : ScoreKey(m) = k,
                               report[1], initial)]]

-----------------------------------------------------------------------------
(* Specification SpecPool: StrategyOptimizer.optimize with method 'grid':  *)
(* the combinations are handed in order to a pool of n_jobs workers, each  *)
(* worker evaluates one at a time, and the results are collected in task   *)
(* order, filtered and sorted  (src/optimizer.py:138-205).                 *)

PoolParamRanges ==
    {<< <<StopLossKey, <<1, 2>> >>, <<TakeProfitKey, <<1, 2>> >> >>,
     << <<StopLossKey, <<1, 2, 3>> >> >>}

\* mp.cpu_count() of the machine
CpuCount == 2
PoolJobs == {-1, 1, 3}
PoolSize(n_jobs) == IF n_jobs = -1 THEN CpuCount ELSE n_jobs

DataRow(b, long_signal, short_signal) ==
    [low |-> b.low, high |-> b.high, close |-> b.close,
     long_signal |-> long_signal, short_signal |-> short_signal,
     ATR |-> RInt(1)]

\* frames the data fetcher returns, with the signal columns
PoolData ==
    {<<DataRow(Row(2, 2, 2), FALSE, FALSE), DataRow(Row(1, 2, 1), FALSE, FALSE)>>,
     <<DataRow(Row(2, 2, 2), TRUE, FALSE), DataRow(Row(1, 2, 1), FALSE, FALSE),
       DataRow(Row(1, 4, 2), FALSE, FALSE)>>,
     <<DataRow(Row(2, 2, 2), TRUE, FALSE), DataRow(Row(2, 3, 3), FALSE, FALSE),
       DataRow(Row(3, 3, 3), FALSE, TRUE), DataRow(Row(3, 4, 4), FALSE, FALSE)>>}

\* base configurations: complete, or without the commission the Backtester
\* constructor reads
PoolConfigs ==
    LET complete == {c \in BacktesterConfigs :
                        c.risk_management.position_sizing.type = "fixed"}
    IN  complete \cup
        {[c EXCEPT !.risk_management = Drop(@, "commission_per_lot")]
         : c \in {c \in complete : c.trading.allow_consecutive_trades}}

PoolInit ==
    /\ config \in PoolConfigs
    /\ initial_balance = RInt(DefaultInitialBalance)
    /\ \E param_ranges \in PoolParamRanges, n_jobs \in PoolJobs, data \in PoolData :
         optimizer = [param_combinations |-> define_parameters(param_ranges),
                      metrics |-> DefaultMetrics,
                      n_jobs |-> PoolSize(n_jobs),
                      data |-> data,
                      next |-> 1,
                      running |-> {},
                      done |-> [i \in 1..Len(define_parameters(param_ranges))
                                   |-> None],
                      optimization_results |-> << >>,
                      returned |-> FALSE,
                      raised |-> None]
    /\ balance = RInt(0)
    /\ equity_curve = << >>
    /\ trades = << >>
    /\ last_trade_type = None
    /\ run = NoRun
    /\ bar = None
    /\ bar_index = 0
    /\ results = None
    /\ initial_capital = RInt(0)
    /\ cash = RInt(0)
    /\ equity = RInt(0)
    /\ heap = << >>
    /\ positions = EmptyMap
    /\ closed_positions = << >>
    /\ trade_history = << >>
    /\ engine_positions = << >>
    /\ history = << >>
    /\ lastOp = [op |-> "optimize", ref |-> 0, result |-> "ok"]

poolUnchanged ==
    <<results, initial_capital, initial_balance, config, bar, bar_index,
      portfolioVars, backtesterVars>>

\* an idle worker takes the next combination of the iterable
PoolDispatch ==
    /\ optimizer.next <= Len(optimizer.param_combinations)
    /\ Cardinality(optimizer.running) < optimizer.n_jobs
    /\ optimizer' = [optimizer EXCEPT !.running = @ \cup {optimizer.next},
                                      !.next = @ + 1]
    /\ lastOp' = [op |-> "dispatch", ref |-> optimizer.next, result |-> "ok"]
    /\ UNCHANGED poolUnchanged

\* a worker runs _evaluate_parameters_multi_metric on its combination
PoolEvaluate ==
    \E i \in optimizer.running : \E fetched \in {None, Some(optimizer.data)} :
        LET e == evaluate_parameters_multi_metric(
                     optimizer.param_combinations[i], optimizer.metrics,
                     config, fetched, initial_balance)
        IN  /\ optimizer' =
                  [optimizer EXCEPT
                     !.running = @ \ {i},
                     !.done[i] = Some([params |-> e.params, scores |-> e.scores])]
            /\ lastOp' = [op |-> "evaluate", ref |-> i, result |-> e.outcome]
            /\ UNCHANGED poolUnchanged

ProfitFactorScore == ScoreKey("profit_factor")

\* with every result in, the frame of the results in task order, the rows
\* with profit_factor_score > 0 of it, sorted by that column descending
PoolCollect ==
    /\ optimizer.next > Len(optimizer.param_combinations)
    /\ optimizer.running = {}
    /\ ~optimizer.returned
    /\ optimizer.raised = None
    /\ LET rows == [i \in DOMAIN optimizer.done |-> optimizer.done[i][1]]
           has_column == \E i \in DOMAIN rows :
                             ProfitFactorScore \in DOMAIN rows[i].scores
           kept == {i \in DOMAIN rows :
                       /\ ProfitFactorScore \in DOMAIN rows[i].scores
                       /\ FGt(rows[i].scores[ProfitFactorScore], RInt(0))}
       IN  IF ~has_column
           THEN /\ optimizer' = [optimizer EXCEPT !.raised = Some("KeyError")]
                /\ lastOp' = [op |-> "collect", ref |-> 0, result |-> "KeyError"]
           ELSE \E order \in [1..Cardinality(kept) -> kept] :
                  /\ \A a, b \in DOMAIN order : a # b => order[a] # order[b]
                  /\ \A a, b \in DOMAIN order :
                        a < b => ~FGt(rows[order[b]].scores[ProfitFactorScore],
                                      rows[order[a]].scores[ProfitFactorScore])
                  /\ optimizer' =
                        [optimizer EXCEPT
                           !.optimization_results =
                               [j \in DOMAIN order |-> rows[order[j]]],
                           !.returned = TRUE]
                  /\ lastOp' = [op |-> "collect", ref |-> 0, result |-> "ok"]
    /\ UNCHANGED poolUnchanged

PoolNext == PoolDispatch \/ PoolEvaluate \/ PoolCollect

SpecPool == PoolInit /\ [][PoolNext]_vars

-----------------------------------------------------------------------------
(* BaseOptimizer, GridSearchOptimizer, GeneticOptimizer  (src/optimizer/)  *)

\* one pass of the loop of VectorizedBacktestEngine.run over a row, as a
\* function of the state before it, the row, what generate_signals returned
\* (None for nothing) and what datetime.now() reads
run_bar(row, signals, nows) ==
    LET w1 == update_positions(config, World, row, nows)
    IN  IF signals = None THEN w1
        ELSE process_signals(config, w1, signals[1], bar_index + 1)

\* a strategy class with a constructor without arguments: its
\* generate_signals goes long on the bar numbered indicators['ma_period'],
\* else short on the bar numbered indicators['rsi_period']
strategy_signals(indicators, t, row) ==
    LET signal(direction) ==
            [symbol |-> CHOOSE s \in Symbols : TRUE, direction |-> direction,
             price |-> row.close, volume |-> SignalVolume]
    IN  IF "ma_period" \in DOMAIN indicators /\ indicators["ma_period"] = t
        THEN Some(signal("long"))
        ELSE IF "rsi_period" \in DOMAIN indicators /\ indicators["rsi_period"] = t
        THEN Some(signal("short"))
        ELSE None

\* VectorizedBacktestEngine.run from row index on, on the engine as it is:
\* the world it leaves and the exception that ended it, if any
RECURSIVE engine_run(_, _, _, _, _)
engine_run(cfg, w, data, index, now) ==
    IF index > Len(data) THEN [world |-> w, raised |-> None]
    ELSE LET row == data[index]
             w1 == update_positions(cfg, w, row,
                       [i \in 1..Len(w.engine_positions) |-> now])
             signals == strategy_signals(cfg.indicators, index, row)
         IN  IF signals = None
             THEN engine_run(cfg, w1, data, index + 1, now)
             ELSE IF process_signals_outcome(cfg, w1, signals[1]) = "ValueError"
             THEN [world |-> process_signals(cfg, w1, signals[1], index),
                   raised |-> Some("ValueError")]
             ELSE engine_run(cfg, process_signals(cfg, w1, signals[1], index),
                             data, index + 1, now)

\* sharpe_ratio_objective of PerformanceAnalyzer.calculate(history, equity):
\* calculate returns {} for an empty history, and the objective -inf then
sharpe_ratio_objective(trade_log, final_equity) ==
    IF trade_log = << >> THEN NegInf
    ELSE calculate_sharpe_ratio(
             PctChange([i \in 1..Len(trade_log) |-> trade_log[i].equity]))

\* an objective a caller supplies: results.get('Net Profit', float('-inf'))
net_profit_objective(trade_log, final_equity) ==
    IF trade_log = << >> THEN NegInf
    ELSE RSub(SeqSum(SelectSeq(PnlColumn(trade_log), IsProfit)),
              RAbs(SeqSum(SelectSeq(PnlColumn(trade_log), IsLoss))))

objective_func(objective, trade_log, final_equity) ==
    IF objective = "sharpe_ratio_objective"
    THEN sharpe_ratio_objective(trade_log, final_equity)
    ELSE net_profit_objective(trade_log, final_equity)

\* dict.update
Update(d, params) ==
    [k \in DOMAIN d \cup DOMAIN params |->
        IF k \in DOMAIN params THEN params[k] ELSE d[k]]

\* max(self.results, key=score): the index of the first result no later
\* one compares greater than
RECURSIVE max_index(_, _)
max_index(rs, n) ==
    IF n = 1 THEN 1
    ELSE LET best == max_index(rs, n - 1)
         IN  IF FGt(rs[n].score, rs[best].score) THEN n ELSE best

get_best_params(rs) ==
    IF rs = << >> THEN EmptyMap ELSE rs[max_index(rs, Len(rs))].params

\* max(0, score)
NonNegative(score) == IF FGt(score, RInt(0)) THEN score ELSE RInt(0)

\* self.param_space.keys() and self.param_space[name]
ParamNames(param_space) == {param_space[i][1] : i \in DOMAIN param_space}
Candidates(param_space, name) ==
    LET values == param_space[CHOOSE i \in DOMAIN param_space :
                                 param_space[i][1] = name][2]
    IN  {values[j] : j \in DOMAIN values}

\* GeneticOptimizer._initialize_population: the populations it may build,
\* each individual with random.choice(values) for every name of the space
initialize_population(param_space, population_size) ==
    [1..population_size ->
        {params \in [ParamNames(param_space) ->
                        UNION {Candidates(param_space, name)
                               : name \in ParamNames(param_space)}] :
            \A name \in ParamNames(param_space) :
                params[name] \in Candidates(param_space, name)}]

\* GeneticOptimizer._select_parents raises: a fitness of +inf makes the
\* total infinite and random.choices rejects weights whose total is not finite
select_parents_raises(fitness_scores) ==
    \E i \in DOMAIN fitness_scores : fitness_scores[i] = PosInf

\* the same selection with the fitness ignored: always random.sample
select_parents_sample_only(population, fitness_scores) ==
    LET k == Len(population) \div 2
    IN  {c \in [1..k -> DOMAIN population] :
            \A a, b \in 1..k : a # b => c[a] # c[b]}

\* GeneticOptimizer._select_parents: the lists of len(population) // 2
\* parents it may return, each parent named by its position in population;
\* random.sample draws distinct positions, random.choices draws with
\* replacement among the positions of nonzero weight
select_parents(population, fitness_scores) ==
    LET weights == [i \in DOMAIN fitness_scores |->
                       NonNegative(fitness_scores[i])]
        k == Len(population) \div 2
    IN  IF \A i \in DOMAIN weights : weights[i] = RInt(0)
        THEN {c \in [1..k -> DOMAIN population] :
                 \A a, b \in 1..k : a # b => c[a] # c[b]}
        ELSE {c \in [1..k -> DOMAIN population] :
                 \A a \in 1..k : weights[c[a]] # RInt(0)}

\* GeneticOptimizer._crossover: a new dict whose every gene is
\* random.choice([parent1[name], parent2[name]])
crossover(parent1, parent2, param_space) ==
    {[name \in ParamNames(param_space) |->
         IF name \in from_first THEN parent1[name] ELSE parent2[name]]
     : from_first \in SUBSET ParamNames(param_space)}

\* a mutation that draws every gene again
mutate_every_gene(params, param_space) ==
    {mutated \in [ParamNames(param_space) ->
                     UNION {Candidates(param_space, name)
                            : name \in ParamNames(param_space)}] :
        \A name \in ParamNames(param_space) :
            mutated[name] \in Candidates(param_space, name)}

\* GeneticOptimizer._mutate: a copy of params with one randomly named gene
\* set to random.choice(self.param_space[name])
mutate(params, param_space) ==
    UNION {{[params EXCEPT ![name] = v] : v \in Candidates(param_space, name)}
           : name \in ParamNames(param_space)}

\* the pairs random.sample(parents, 2) may draw, as positions of the list
ParentPairs(parents) ==
    {c \in (DOMAIN parents) \X (DOMAIN parents) : c[1] # c[2]}

\* the offspring loop stopping one child early
new_populations_one_short(parents, param_space, population_size) ==
    [1..(population_size - 1) ->
        UNION {LET crossed == crossover(parents[c[1]], parents[c[2]], param_space)
               IN  crossed \cup UNION {mutate(child, param_space)
                                       : child \in crossed}
               : c \in ParentPairs(parents)}]

\* the offspring loop of optimize: population_size children, each the
\* crossover of two sampled parents, mutated or not
new_populations(parents, param_space, population_size) ==
    [1..population_size ->
        UNION {LET crossed == crossover(parents[c[1]], parents[c[2]], param_space)
               IN  crossed \cup UNION {mutate(child, param_space)
                                       : child \in crossed}
               : c \in ParentPairs(parents)}]

-----------------------------------------------------------------------------
(* Specification SpecSearch: GridSearchOptimizer.optimize and              *)
(* GeneticOptimizer.optimize on an engine handed to the constructor, one   *)
(* step per row of an evaluation, per new generation and for the return    *)
(* (src/optimizer/base.py, grid_search.py, genetic.py).                    *)

\* population_size, generations: constructor arguments of GeneticOptimizer
PopulationSize == 4
Generations == 2

\* param_space: a period beyond the length of the data never signals
GridParamSpace == << <<"ma_period", <<1, 2, 4>> >>, <<"rsi_period", <<1, 4>> >> >>
GeneticParamSpace == << <<"rsi_period", <<1, 4>> >> >>

\* strategy_class: the repository's TradingStrategy, whose constructor
\* requires a name, or a class constructed without arguments
StrategyClasses == {"TradingStrategy", "UserStrategy"}

\* objective_func: the repository's Sharpe objective or the caller's
Objectives == {"sharpe_ratio_objective", "net_profit_objective"}

SearchData ==
    {<<Row(2, 2, 2), Row(2, 4, 4), Row(4, 4, 4)>>,
     <<Row(1, 2, 1), Row(1, 2, 1), Row(2, 2, 2)>>,
     <<Row(4, 4, 4), Row(1, 4, 2), Row(2, 2, 2)>>}

\* what datetime.now() reads during the search
SearchClock == {CHOOSE now \in WallClock : TRUE}

SearchConfigs ==
    {Update(EngineConfig(m, NoCosts), [indicators |-> EmptyMap]) : m \in {1, 2}}

\* every parameter set of the space, as a set
ParamSets(param_space) ==
    {define_parameters(param_space)[i]
     : i \in DOMAIN define_parameters(param_space)}

NewOptimizer(kind, strategy_class, objective, param_space, data, population) ==
    [kind |-> kind,
     strategy_class |-> strategy_class,
     objective |-> objective,
     param_space |-> param_space,
     data |-> data,
     pending |-> IF kind = "grid" THEN define_parameters(param_space)
                 ELSE population,
     population |-> population,
     population_size |-> Len(population),
     generation |-> 0,
     evaluating |-> None,
     results |-> << >>,
     returned |-> None,
     raised |-> None]

SearchInit ==
    /\ config \in SearchConfigs
    /\ initial_capital = config.risk_management.initial_capital
    /\ cash = initial_capital
    /\ equity = initial_capital
    /\ heap = << >>
    /\ positions = EmptyMap
    /\ closed_positions = << >>
    /\ trade_history = << >>
    /\ engine_positions = << >>
    /\ history = << >>
    /\ bar = None
    /\ bar_index = 0
    /\ initial_balance = RInt(0)
    /\ balance = RInt(0)
    /\ equity_curve = << >>
    /\ trades = << >>
    /\ last_trade_type = None
    /\ run = NoRun
    /\ results = None
    /\ \E strategy_class \in StrategyClasses, data \in SearchData :
         \/ \E objective \in Objectives :
              optimizer = NewOptimizer("grid", strategy_class, objective,
                                       GridParamSpace, data, << >>)
         \/ \E population_size \in 1..PopulationSize :
            \E population \in initialize_population(GeneticParamSpace,
                                                    population_size) :
              optimizer = NewOptimizer("genetic", strategy_class,
                                       "net_profit_objective",
                                       GeneticParamSpace, data, population)
    /\ lastOp = [op |-> "init", ref |-> 0, result |-> "ok"]

Searching == optimizer.returned = None /\ optimizer.raised = None

searchUnchanged == <<results, initial_capital, backtesterVars>>

\* BaseOptimizer.evaluate_params on the next parameter set of the loop, up
\* to the call of engine.run: the strategy object, the configuration update
BeginEvaluate ==
    /\ Searching
    /\ optimizer.pending # << >>
    /\ optimizer.evaluating = None
    /\ LET params == Head(optimizer.pending)
       IN  IF optimizer.strategy_class = "TradingStrategy"
           THEN /\ optimizer' = [optimizer EXCEPT !.raised = Some("TypeError")]
                /\ lastOp' = [op |-> "evaluate_params",
                              ref |-> Len(optimizer.results) + 1,
                              result |-> "TypeError"]
                /\ UNCHANGED config
           ELSE /\ optimizer' = [optimizer EXCEPT !.evaluating = Some(params)]
                /\ config' = [config EXCEPT !.indicators = Update(@, params)]
                /\ lastOp' = [op |-> "evaluate_params",
                              ref |-> Len(optimizer.results) + 1,
                              result |-> "run"]
    /\ bar' = None
    /\ bar_index' = 0
    /\ UNCHANGED <<heap, cash, equity, positions, closed_positions,
                   trade_history, engine_positions, history>>
    /\ UNCHANGED searchUnchanged

\* one row of engine.run(strategy, self.data) inside the evaluation
EvaluateRow ==
    \E nows \in [1..Len(engine_positions) -> SearchClock] :
        /\ Searching
        /\ optimizer.evaluating # None
        /\ bar_index < Len(optimizer.data)
        /\ LET timestamp == bar_index + 1
               row == optimizer.data[timestamp]
               signals == strategy_signals(config.indicators, timestamp, row)
           IN  /\ Commit(run_bar(row, signals, nows))
               /\ bar' = Some(row)
               /\ IF signals # None /\
                     process_signals_outcome(
                         config, update_positions(config, World, row, nows),
                         signals[1]) = "ValueError"
                  THEN /\ optimizer' = [optimizer EXCEPT
                                          !.raised = Some("ValueError")]
                       /\ lastOp' = [op |-> "row", ref |-> timestamp,
                                     result |-> "ValueError"]
                  ELSE /\ UNCHANGED optimizer
                       /\ lastOp' = [op |-> "row", ref |-> timestamp,
                                     result |-> "ok"]
        /\ bar_index' = bar_index + 1
        /\ UNCHANGED config
        /\ UNCHANGED searchUnchanged

\* the end of evaluate_params: the results of the run, scored and recorded
EndEvaluate ==
    /\ Searching
    /\ optimizer.evaluating # None
    /\ bar_index = Len(optimizer.data)
    /\ optimizer' =
          [optimizer EXCEPT
             !.evaluating = None,
             !.pending = Tail(@),
             !.results = Append(@, [params |-> optimizer.evaluating[1],
                                    score |-> objective_func(
                                        optimizer.objective, history, equity)])]
    /\ lastOp' = [op |-> "evaluate_params", ref |-> Len(optimizer.results) + 1,
                  result |-> "ok"]
    /\ UNCHANGED <<config, bar, bar_index, heap, cash, equity, positions,
                   closed_positions, trade_history, engine_positions, history>>
    /\ UNCHANGED searchUnchanged

\* the fitness_scores of the generation just evaluated
FitnessScores ==
    [i \in 1..optimizer.population_size |->
        optimizer.results[Len(optimizer.results)
                          - optimizer.population_size + i].score]

\* parents = self._select_parents(population, fitness_scores), as dicts
ParentLists ==
    {[j \in DOMAIN c |-> optimizer.population[c[j]]]
     : c \in select_parents(optimizer.population, FitnessScores)}

\* the rest of the loop body after the evaluations: parents, new population;
\* random.sample(parents, 2) raises ValueError on fewer than two parents
NextGeneration ==
    /\ Searching
    /\ optimizer.kind = "genetic"
    /\ optimizer.pending = << >>
    /\ optimizer.evaluating = None
    /\ optimizer.generation < Generations
    /\ IF select_parents_raises(FitnessScores)
       THEN /\ optimizer' = [optimizer EXCEPT !.raised = Some("ValueError")]
            /\ lastOp' = [op |-> "next_generation", ref |-> optimizer.generation,
                          result |-> "ValueError"]
       ELSE \E parents \in ParentLists :
              IF Len(parents) < 2
              THEN /\ optimizer' = [optimizer EXCEPT
                                      !.raised = Some("ValueError")]
                   /\ lastOp' = [op |-> "next_generation",
                                 ref |-> optimizer.generation,
                                 result |-> "ValueError"]
              ELSE \E new_population \in
                         new_populations(parents, optimizer.param_space,
                                         optimizer.population_size) :
                     /\ optimizer' =
                           [optimizer EXCEPT
                              !.population = new_population,
                              !.generation = @ + 1,
                              !.pending = IF optimizer.generation + 1 < Generations
                                          THEN new_population ELSE << >>]
                     /\ lastOp' = [op |-> "next_generation",
                                   ref |-> optimizer.generation, result |-> "ok"]
    /\ UNCHANGED <<results, config, bar, bar_index, portfolioVars, backtesterVars>>

\* return self.get_best_params()
SearchReturn ==
    /\ Searching
    /\ optimizer.pending = << >>
    /\ optimizer.kind = "genetic" => optimizer.generation = Generations
    /\ optimizer' = [optimizer EXCEPT
                       !.returned = Some(get_best_params(optimizer.results))]
    /\ lastOp' = [op |-> "optimize", ref |-> 0, result |-> "ok"]
    /\ UNCHANGED <<results, config, bar, bar_index, portfolioVars, backtesterVars>>

SearchNext ==
    BeginEvaluate \/ EvaluateRow \/ EndEvaluate \/ NextGeneration \/ SearchReturn

SpecSearch == SearchInit /\ [][SearchNext]_vars

-----------------------------------------------------------------------------
(* Specification SpecGenetic: the functions of one generation of           *)
(* GeneticOptimizer applied to a population and the fitness scores of its  *)
(* individuals: _select_parents, then random.sample(parents, 2) and        *)
(* _crossover, then _mutate (src/optimizer/genetic.py).                    *)

\* param_space: two parameters, with two and with three candidate values
BreedParamSpace == << <<"ma_period", <<1, 2>> >>, <<"rsi_period", <<1, 2, 4>> >> >>

\* populations as _initialize_population builds them, of four individuals
\* and of two
BreedPopulations ==
    {population \in initialize_population(BreedParamSpace, PopulationSize) :
        /\ population[1] = [ma_period |-> 1, rsi_period |-> 1]
        /\ population[2] = [ma_period |-> 2, rsi_period |-> 4]
        /\ population[3].ma_period = 1
        /\ population[4].rsi_period = 4}
    \cup
    {population \in initialize_population(BreedParamSpace, 2) :
        /\ population[1] = [ma_period |-> 1, rsi_period |-> 1]
        /\ population[2] = [ma_period |-> 2, rsi_period |-> 4]}

\* the values of objective_func: finite of either sign, zero, -inf, and for
\* the first individual also nan and +inf
BreedScores(population) ==
    {fitness_scores \in [DOMAIN population ->
                            {NegInf, RInt(-1), RInt(0), RInt(1), NaN, PosInf}] :
        \A i \in DOMAIN population :
            fitness_scores[i] \in {NaN, PosInf} => i = 1}

GeneticInit ==
    /\ config = EmptyMap
    /\ initial_capital = RInt(0)
    /\ cash = initial_capital
    /\ equity = initial_capital
    /\ heap = << >>
    /\ positions = EmptyMap
    /\ closed_positions = << >>
    /\ trade_history = << >>
    /\ engine_positions = << >>
    /\ history = << >>
    /\ bar = None
    /\ bar_index = 0
    /\ initial_balance = RInt(0)
    /\ balance = RInt(0)
    /\ equity_curve = << >>
    /\ trades = << >>
    /\ last_trade_type = None
    /\ run = NoRun
    /\ results = None
    /\ \E population \in BreedPopulations :
       \E fitness_scores \in BreedScores(population) :
          optimizer = [kind |-> "generation",
                       param_space |-> BreedParamSpace,
                       population |-> population,
                       fitness_scores |-> fitness_scores,
                       parents |-> None,
                       parent1 |-> None,
                       parent2 |-> None,
                       crossed |-> None,
                       child |-> None,
                       mutated |-> FALSE,
                       raised |-> None]
    /\ lastOp = [op |-> "init", ref |-> 0, result |-> "ok"]

geneticUnchanged ==
    <<results, config, bar, bar_index, initial_capital, portfolioVars,
      backtesterVars>>

\* parents = self._select_parents(population, fitness_scores); the list is
\* kept by the positions of the parents in population
SelectParents ==
    /\ optimizer.raised = None
    /\ optimizer.parents = None
    /\ IF select_parents_raises(optimizer.fitness_scores)
       THEN /\ optimizer' = [optimizer EXCEPT !.raised = Some("ValueError")]
            /\ lastOp' = [op |-> "select_parents", ref |-> 0,
                          result |-> "ValueError"]
       ELSE \E parents \in select_parents(optimizer.population,
                                          optimizer.fitness_scores) :
              /\ optimizer' = [optimizer EXCEPT !.parents = Some(parents)]
              /\ lastOp' = [op |-> "select_parents", ref |-> 0, result |-> "ok"]
    /\ UNCHANGED geneticUnchanged

\* parent1, parent2 = random.sample(parents, 2);
\* child = self._crossover(parent1, parent2)
Crossover ==
    /\ optimizer.raised = None
    /\ optimizer.parents # None
    /\ optimizer.crossed = None
    /\ LET parents == optimizer.parents[1]
       IN  IF Len(parents) < 2
           THEN /\ optimizer' = [optimizer EXCEPT !.raised = Some("ValueError")]
                /\ lastOp' = [op |-> "sample", ref |-> 0, result |-> "ValueError"]
           ELSE \E pair \in ParentPairs(parents) :
                  LET parent1 == optimizer.population[parents[pair[1]]]
                      parent2 == optimizer.population[parents[pair[2]]]
                  IN  \E child \in crossover(parent1, parent2,
                                             optimizer.param_space) :
                        /\ optimizer' = [optimizer EXCEPT
                                           !.parent1 = Some(parent1),
                                           !.parent2 = Some(parent2),
                                           !.crossed = Some(child),
                                           !.child = Some(child)]
                        /\ lastOp' = [op |-> "crossover", ref |-> 0,
                                      result |-> "ok"]
    /\ UNCHANGED geneticUnchanged

\* child = self._mutate(child), when random.random() < self.mutation_rate
Mutate ==
    /\ optimizer.raised = None
    /\ optimizer.crossed # None
    /\ ~optimizer.mutated
    /\ \E mutated \in mutate(optimizer.child[1], optimizer.param_space) :
          optimizer' = [optimizer EXCEPT !.child = Some(mutated),
                                         !.mutated = TRUE]
    /\ lastOp' = [op |-> "mutate", ref |-> 0, result |-> "ok"]
    /\ UNCHANGED geneticUnchanged

GeneticNext == SelectParents \/ Crossover \/ Mutate

SpecGenetic == GeneticInit /\ [][GeneticNext]_vars

-----------------------------------------------------------------------------
(* Claims                                                                  *)

Range(f) == {f[x] : x \in DOMAIN f}
OpenRefs == Range(positions)
ClosedRefs == Range(closed_positions)
IsOpen(p) == p.exit_price = None
\* every position constructed so far came from a long or a short signal
AllDirectional == \A r \in DOMAIN heap : heap[r].direction \in Directions

RECURSIVE MarkedToMarket(_, _)
MarkedToMarket(refs, price) ==
    IF refs = {} THEN RInt(0)
    ELSE LET r == CHOOSE x \in refs : TRUE
         IN  RAdd(pnl_value(heap[r], price), MarkedToMarket(refs \ {r}, price))

\* C1 (as claimed; SpecEngine): at every bar with a position open, equity is
\* cash plus the unrealized P&L of the open positions marked at the bar's
\* latest price, the close of the row just processed.
C1_EquityMarkedAtLatestPrice ==
    (bar # None /\ OpenRefs # {} /\ AllDirectional) =>
        equity = RAdd(cash, MarkedToMarket(OpenRefs, bar[1].close))

\* C2 (Spec): cash is never negative, whatever add_position and
\* remove_position calls are made.
C2_CashNeverNegative == RLe(RInt(0), cash)

\* an add_position was refused after a position had been closed at a gain or loss
C2_Witness ==
    /\ lastOp.op = "add_position"
    /\ lastOp.result = "ValueError"
    /\ closed_positions # << >>

\* C3 (as claimed; Spec): add_position for a symbol that already has an open
\* position fails and leaves the open map, cash and the trade log as they were.
C3_DuplicateSymbolRejected ==
    [][(lastOp'.op = "add_position"
        /\ heap'[lastOp'.ref].symbol \in DOMAIN positions)
       => /\ lastOp'.result # "ok"
          /\ positions' = positions
          /\ cash' = cash
          /\ trade_history' = trade_history]_vars

\* C4 (as claimed; Spec): once a position is closed, no later call changes
\* the exit price, exit timestamp and pnl its first close set.
C4_ClosedPositionKeepsItsExit ==
    [][\A r \in DOMAIN heap :
          ~IsOpen(heap[r]) =>
              /\ heap'[r].exit_price = heap[r].exit_price
              /\ heap'[r].exit_timestamp = heap[r].exit_timestamp
              /\ heap'[r].pnl = heap[r].pnl]_vars

\* C5 (as claimed; Spec): the pnl of a position is None as long as close()
\* has not been called on it.
C5_PnlNoneUntilClose ==
    \A r \in DOMAIN heap : IsOpen(heap[r]) => heap[r].pnl = None

DirectionalPnl(direction, entry, exit, size) ==
    IF direction = "long" THEN RMul(RSub(exit, entry), size)
    ELSE RMul(RSub(entry, exit), size)

LacksFunds(ref) ==
    RLt(cash, RMul(heap'[ref].entry_price, heap'[ref].size))

PortfolioUntouched ==
    /\ cash' = cash
    /\ equity' = equity
    /\ positions' = positions
    /\ closed_positions' = closed_positions
    /\ trade_history' = trade_history

\* C7 (as claimed; SpecSimulation): add_position with cash below the entry
\* notional fails with InsufficientFundsError and leaves the portfolio as it was.
C7_FailsWithInsufficientFundsError ==
    [][(lastOp'.op = "add_position" /\ LacksFunds(lastOp'.ref))
       => (lastOp'.result = "InsufficientFundsError" /\ PortfolioUntouched)]_vars

\* C7 (amended; SpecSimulation): add_position with cash below the entry
\* notional raises ValueError and leaves cash, equity, the open map, the
\* closed log and the trade log as they were; in the engine process_signals
\* returns before add_position is called, so no exception leaves it, the
\* rejected signal constructs and opens no position, and the run goes on.
C7_InsufficientFundsRejected ==
    /\ [][(lastOp'.op = "add_position" /\ LacksFunds(lastOp'.ref))
          => (lastOp'.result = "ValueError" /\ PortfolioUntouched)]_vars
    /\ [][(lastOp'.op = "bar" /\ lastOp'.result \in {"cannot_open", "no_funds"})
          => \E nows \in [DOMAIN engine_positions -> WallClock] :
                 Commit(update_positions(config, World, bar'[1], nows))]_vars
    /\ [](lastOp.op = "bar" => lastOp.result # "ValueError")

\* an add_position refused for lack of funds while another position is open
C7_Witness ==
    /\ lastOp.op = "add_position"
    /\ lastOp.result = "ValueError"
    /\ OpenRefs # {}

\* C8 (Spec): remove_position for a position whose symbol is not in the open
\* map changes nothing: not the portfolio, not the position passed to it.
C8_RemoveAbsentIsNoOp ==
    [][(lastOp'.op = "remove_position"
        /\ heap[lastOp'.ref].symbol \notin DOMAIN positions)
       => (PortfolioUntouched /\ heap' = heap)]_vars

\* remove_position was called again for a position it had closed at a gain
C8_Witness ==
    /\ lastOp.op = "remove_position"
    /\ lastOp.result = "noop"
    /\ ~IsOpen(heap[lastOp.ref])
    /\ heap[lastOp.ref].pnl # Some(RInt(0))

\* C9 (as claimed; SpecEngine): every position an accepted signal created is
\* in exactly one of the open map and the closed log, and the engine's own
\* list holds the positions of the open map.
C9_OwnershipMoves ==
    AllDirectional =>
        /\ \A r \in DOMAIN heap : (r \in OpenRefs) # (r \in ClosedRefs)
        /\ Range(engine_positions) = OpenRefs

\* C10 (SpecEngine): the engine never holds more open positions than
\* max_open_trades, and neither does the portfolio.
C10_OpenPositionsWithinCap ==
    /\ Len(engine_positions) <= config.risk_management.max_open_trades
    /\ Cardinality(DOMAIN positions) <= config.risk_management.max_open_trades

\* a signal the funds would have allowed is rejected because the cap is reached
C10_Witness ==
    /\ lastOp.op = "bar"
    /\ lastOp.result = "cannot_open"
    /\ Len(engine_positions) = config.risk_management.max_open_trades
    /\ RLe(RMul(bar[1].close, SignalVolume), cash)

\* the trades of the i-th and the next record of run_backtest's log
\* differ in direction
C11_BacktesterTradesAlternate ==
    \A i \in 1..(Len(trades) - 1) : trades[i].type # trades[i + 1].type

CountAction(log, n, action) ==
    Cardinality({k \in 1..n : log[k].action = action})

\* the engine's log never holds a close followed, with no position left open,
\* by an open in the direction of the trade just closed
C11_EngineRejectsRepeatedDirection ==
    \A i \in 1..(Len(history) - 1) :
        (/\ history[i].action = "close"
         /\ history[i + 1].action = "open"
         /\ CountAction(history, i, "open") = CountAction(history, i, "close")
         /\ history[i].direction \in Directions)
        => history[i + 1].direction # history[i].direction

\* C11 (as claimed; SpecSimulation): in a run configured with
\* allow_consecutive_trades false no two consecutive trades have the same
\* direction: on a flat bar a signal in the direction of the trade closed
\* last opens nothing.
C11_NoConsecutiveSameDirection ==
    ("trading" \in DOMAIN config /\ ~config.trading.allow_consecutive_trades)
        => (C11_BacktesterTradesAlternate /\ C11_EngineRejectsRepeatedDirection)

\* the stop-loss and take-profit levels _should_close_position tests a
\* position against
EngineExitLevels(cfg, position) ==
    IF position.direction = "long"
    THEN {RMul(position.entry_price,
               RSub(RInt(1), cfg.risk_management.stop_loss_multiplier)),
          RMul(position.entry_price,
               RAdd(RInt(1), cfg.risk_management.take_profit_multiplier))}
    ELSE {RMul(position.entry_price,
               RAdd(RInt(1), cfg.risk_management.stop_loss_multiplier)),
          RMul(position.entry_price,
               RSub(RInt(1), cfg.risk_management.take_profit_multiplier))}

\* the levels run_backtest may have set for a trade of this direction and entry
BacktesterExitLevels(cfg, type, entry) ==
    UNION {{calculate_exit_prices(cfg, entry, RInt(a), type)[1],
            calculate_exit_prices(cfg, entry, RInt(a), type)[2]} : a \in AtrInts}

\* C12 (as claimed; SpecSimulation): the exit price recorded for a trade
\* closed by a bar crossing its stop-loss or take-profit is that level: one
\* of the two levels of the trade, whatever the bar's close is.
C12_ExitFillsAtTriggeredLevel ==
    /\ \A i \in DOMAIN trades :
          trades[i].exit \in BacktesterExitLevels(config, trades[i].type,
                                                  trades[i].entry)
    /\ \A r \in ClosedRefs :
          heap[r].direction \in Directions =>
              heap[r].exit_price[1] \in EngineExitLevels(config, heap[r])

\* directional P&L of the closed positions refs, less the total trading cost
\* of the opening leg and of the closing leg of each
RECURSIVE NetRealizedPnl(_)
NetRealizedPnl(refs) ==
    IF refs = {} THEN RInt(0)
    ELSE LET r == CHOOSE x \in refs : TRUE
             p == heap[r]
             directional == DirectionalPnl(p.direction, p.entry_price,
                                           p.exit_price[1], p.size)
             legs == RAdd(calculate_trading_costs(config,
                              RMul(p.entry_price, p.size)),
                          calculate_trading_costs(config,
                              RMul(p.exit_price[1], p.size)))
         IN  RAdd(RSub(directional, legs), NetRealizedPnl(refs \ {r}))

\* every position the run opened has been closed, each once
AllTradesClosed ==
    /\ OpenRefs = {}
    /\ engine_positions = << >>
    /\ ClosedRefs = DOMAIN heap
    /\ Len(closed_positions) = Len(heap)

\* C13 (as claimed; SpecEngine): what the closed trades have added to the
\* account is, for each, its directional P&L less the total trading cost
\* (commission + spread + slippage) of its opening and of its closing leg.
C13_RealizedPnlNetOfCosts ==
    (AllDirectional /\ AllTradesClosed /\ heap # << >>) =>
        cash = RAdd(initial_capital, NetRealizedPnl(DOMAIN heap))

\* C14 (as claimed; SpecLockstep): on the same price series and signal
\* sequence both modes hold a position on the same bars and have recorded
\* the same closed trades after every bar: as many, in the same order, each
\* with the same direction, entry price, exit price and P&L.
C14_ModesProduceSameTrades ==
    /\ (run.position # None) <=> (engine_positions # << >>)
    /\ Len(trades) = Len(closed_positions)
    /\ \A i \in DOMAIN trades :
          i \in DOMAIN closed_positions =>
              LET p == heap[closed_positions[i]]
              IN  /\ trades[i].type = p.direction
                  /\ trades[i].entry = p.entry_price
                  /\ Some(trades[i].exit) = p.exit_price
                  /\ Some(trades[i].pnl) = p.pnl

\* C15 (as claimed; SpecBacktester): after a run over N rows the equity
\* curve holds N samples, one for each row, rows without an open position
\* and rows that open one included.
C15_OneSamplePerBar == Len(equity_curve) = bar_index

\* C16 (as claimed; SpecStrategy): a signal that lacks symbol, price or
\* volume is dropped without raising: the bar ends as a bar without signals
\* ends, with no position opened and the portfolio as update_positions left it.
C16_IncompleteSignalDropped ==
    [][(/\ lastOp'.op = "bar"
        /\ lastOp'.missing \cap {"symbol", "price", "volume"} # {})
       => /\ lastOp'.result \notin {"KeyError", "ValueError", "opened"}
          /\ \E nows \in [DOMAIN engine_positions -> WallClock] :
                 Commit(update_positions(config, World, bar'[1], nows))]_vars

\* C17 (as claimed; SpecEngine): the portfolio only ever opens long or
\* short positions, and a bar whose signal has direction None opens nothing.
C17_OnlyLongOrShortOpened ==
    /\ \A i \in DOMAIN trade_history :
          trade_history[i].direction \in Directions
    /\ \A s \in DOMAIN positions :
          heap[positions[s]].direction \in Directions

HasProfit ==
    \E i \in DOMAIN history :
        history[i].pnl # None /\ RLt(RInt(0), history[i].pnl[1])
HasLoss ==
    \E i \in DOMAIN history :
        history[i].pnl # None /\ RLt(history[i].pnl[1], RInt(0))

\* C18 (as claimed; SpecAnalyzer): the profit factor calculate reports is
\* +infinity for a history with winning and no losing trades, 0 for one with
\* neither, and a finite non-negative number otherwise; it is never NaN.
C18_ProfitFactorDefined ==
    lastOp.op = "calculate" =>
        LET profit_factor == results[1].profit_factor
        IN  /\ profit_factor # NaN
            /\ IF ~HasLoss
               THEN IF HasProfit THEN profit_factor = PosInf
                    ELSE profit_factor = RInt(0)
               ELSE IsFinite(profit_factor) /\ RLe(RInt(0), profit_factor)

\* the sequence the drawdown was computed from
EquityInput ==
    IF lastOp.op = "calculate"
    THEN [i \in DOMAIN history |-> history[i].equity]
    ELSE equity_curve

\* the largest element of a non-empty set of rationals
RMaxOf(S) == CHOOSE m \in S : \A x \in S : RLe(x, m)

\* the largest relative decline of xs from its running prefix maximum
LargestDecline(xs) ==
    RMaxOf({LET peak == RMaxOf({xs[i] : i \in 1..j})
            IN  RDiv(RSub(peak, xs[j]), peak) : j \in DOMAIN xs})

\* C19 (as claimed; SpecAnalyzer): the max drawdown reported for a positive
\* equity sequence is its largest relative decline from the running maximum,
\* as a magnitude in [0, 1]: 0 for a non-decreasing sequence, (110 - 90) / 110
\* for [100, 110, 90, 120].
C19_MaxDrawdownIsLargestDecline ==
    results # None =>
        LET max_drawdown == results[1].max_drawdown
            xs == EquityInput
        IN  /\ max_drawdown = LargestDecline(xs)
            /\ RLe(RInt(0), max_drawdown) /\ RLe(max_drawdown, RInt(1))
            /\ (\A i \in 1..(Len(xs) - 1) : RLe(xs[i], xs[i + 1]))
                   => max_drawdown = RInt(0)
            /\ xs = <<RInt(100), RInt(110), RInt(90), RInt(120)>>
                   => max_drawdown = Rat(110 - 90, 110)

\* C20 (as claimed; SpecAnalyzer): for a return sequence without a negative
\* period the Sortino ratio calculate reports is 0 or infinite, not NaN.
C20_SortinoWithoutDownside ==
    (/\ lastOp.op = "calculate"
     /\ \A i \in 1..(Len(history) - 1) :
            RLe(history[i].equity, history[i + 1].equity))
    => results[1].sortino_ratio \in {RInt(0), PosInf, NegInf}

\* the hours between each 'close' row and the 'open' row of the same trade:
\* a row is written at its index, the 'close' row names its trade by the
\* entry time it carries
OwnOpenDurations(log) ==
    LET closes == SelectSeq([i \in 1..Len(log) |-> i],
                            LAMBDA i : log[i].action = "close")
    IN  [k \in 1..Len(closes) |-> RInt(closes[k] - log[closes[k]].timestamp)]

\* C21 (as claimed; SpecAnalyzer): the average trade duration calculate
\* reports is the mean, over the closed trades, of the time between the
\* trade's own 'open' row and its 'close' row.
C21_DurationPairsCloseWithOwnOpen ==
    lastOp.op = "calculate" =>
        results[1].average_trade_duration = Mean(OwnOpenDurations(history))

StrategyOutputs(row) == {None} \cup {Some(s) : s \in SignalsFor(row)}

\* C22 (as claimed; SpecEngine): a run is deterministic: from a common state
\* two runs given the same row and the same signals reach the same state
\* (trade log, positions with exit price and exit timestamp, cash, equity),
\* whatever the wall clock reads.
C22_RunIsDeterministic ==
    \A row \in Bars : \A signals \in StrategyOutputs(row) :
        \A nows1, nows2 \in [1..Len(engine_positions) -> WallClock] :
            run_bar(row, signals, nows1) = run_bar(row, signals, nows2)

\* the row crosses the stop-loss / the take-profit of the open position
CrossesStop(row) ==
    IF run.position = Some("long") THEN RLe(row.low, run.stop_loss)
    ELSE RLe(run.stop_loss, row.high)
CrossesTake(row) ==
    IF run.position = Some("long") THEN RLe(run.take_profit, row.high)
    ELSE RLe(row.low, run.take_profit)

LastTrade == trades[Len(trades)]

\* C29 (SpecExits): stop-loss has priority within a bar: a row that crosses
\* the stop-loss of the open long or short position closes it at the
\* stop-loss price, also when the row crosses the take-profit; the exit price
\* is the take-profit only when the stop-loss is not crossed.
C29_StopLossHasPriority ==
    [][run.position # None =>
          /\ CrossesStop(bar'[1]) =>
                /\ Len(trades') = Len(trades) + 1
                /\ trades'[Len(trades')].exit = run.stop_loss
                /\ trades'[Len(trades')].type = run.position[1]
          /\ (~CrossesStop(bar'[1]) /\ CrossesTake(bar'[1])) =>
                /\ Len(trades') = Len(trades) + 1
                /\ trades'[Len(trades')].exit = run.take_profit
          /\ (~CrossesStop(bar'[1]) /\ ~CrossesTake(bar'[1])) =>
                trades' = trades]_vars

\* a long position has been closed at its stop-loss by a row that crossed
\* its take-profit as well
C29_Witness ==
    /\ lastOp.result = "closed"
    /\ LastTrade.type = "long"
    /\ LastTrade.exit = run.stop_loss
    /\ RLe(bar[1].low, run.stop_loss)
    /\ RLe(run.take_profit, bar[1].high)

\* <<stop_loss, take_profit>> as the claim states them
AtrLevels(direction, entry_price, atr, stop_multiplier, take_multiplier) ==
    IF direction = "long"
    THEN <<RSub(entry_price, RMul(atr, stop_multiplier)),
           RAdd(entry_price, RMul(atr, take_multiplier))>>
    ELSE <<RAdd(entry_price, RMul(atr, stop_multiplier)),
           RSub(entry_price, RMul(atr, take_multiplier))>>

\* the row crosses one of the two levels of a position of this direction
CrossesLevels(direction, levels, row) ==
    IF direction = "long"
    THEN RLe(row.low, levels[1]) \/ RLe(levels[2], row.high)
    ELSE RLe(levels[1], row.high) \/ RLe(row.low, levels[2])

\* a configuration with the multipliers of the scenario: stop 1.5, take 2
ScenarioConfig ==
    [trading |-> [exit_rules |->
        [stop_loss |-> [type |-> "fixed", value |-> Rat(3, 2)],
         take_profit |-> [type |-> "fixed", value |-> RInt(2)]]]]

\* C30 (as claimed; SpecLockstep): the levels of a position are
\* entry -/+ ATR * multiplier for a long and entry +/- ATR * multiplier for a
\* short, ATR being that of the entry bar: run_backtest sets them so on the
\* row of the entry, the engine closes a position exactly on a row crossing
\* them, and entry 100, ATR 2, multipliers 1.5 and 2 give 97 and 104.
C30_LevelsAreEntryPlusMinusAtrMultiple ==
    [][/\ (run'.position # None
             /\ (run.position = None \/ Len(trades') > Len(trades)))
          => <<run'.stop_loss, run'.take_profit>>
                = AtrLevels(run'.position[1], run'.entry_price, bar'[1].ATR,
                            config.trading.exit_rules.stop_loss.value,
                            config.trading.exit_rules.take_profit.value)
       /\ \A i \in 1..Len(engine_positions) :
            LET position == heap[engine_positions[i]]
            IN  \E a \in AtrInts :
                  (engine_positions[i] \notin Range(engine_positions'))
                  <=> CrossesLevels(position.direction,
                         AtrLevels(position.direction, position.entry_price,
                                   RInt(a),
                                   config.risk_management.stop_loss_multiplier,
                                   config.risk_management.take_profit_multiplier),
                         bar'[1])
       /\ calculate_exit_prices(ScenarioConfig, RInt(100), RInt(2), "long")
             = <<RInt(97), RInt(104)>>]_vars

\* C28 (as claimed; SpecConfig): a missing configuration key is reported
\* before any row is processed: no lookup fails once the run has started.
C28_ConfigErrorsBeforeFirstBar ==
    lastOp.result = "KeyError" => bar_index = 0

\* the score keys a successful evaluation records
ScoreKeys == {ScoreKey(DefaultMetrics[i]) : i \in DOMAIN DefaultMetrics}

FailedOutcomes == {"no_data", "error", "no_trades"}

\* C25: an evaluation that fails internally (no data, the simulator raises,
\* no trades) is recorded with minus infinity under the score keys of a
\* successful evaluation, and the search goes on and returns without raising
C25_FailedEvaluationScoresMinusInfinity ==
    /\ (lastOp.op = "evaluate" /\ lastOp.result \in FailedOutcomes) =>
           LET e == optimizer.done[lastOp.ref][1]
           IN  /\ DOMAIN e.scores = ScoreKeys
               /\ \A k \in DOMAIN e.scores : e.scores[k] = NegInf
    /\ optimizer.raised = None

EveryEvaluationMinusInfinity ==
    \A i \in DOMAIN optimizer.done :
        \A k \in DOMAIN optimizer.done[i][1].scores :
            optimizer.done[i][1].scores[k] = NegInf

\* C26: a grid search in which every evaluation scores minus infinity does
\* not raise and returns a result set holding every evaluated combination
C26_AllMinusInfinityStillReturnsEveryCombination ==
    (lastOp.op = "collect" /\ EveryEvaluationMinusInfinity) =>
        /\ optimizer.raised = None
        /\ optimizer.returned
        /\ Len(optimizer.optimization_results) = Len(optimizer.param_combinations)
        /\ \A i \in DOMAIN optimizer.param_combinations :
              \E j \in DOMAIN optimizer.optimization_results :
                  optimizer.optimization_results[j].params =
                      optimizer.param_combinations[i]

\* float comparison a >= b
FGe(a, b) == FGt(a, b) \/ (a = b /\ a # NaN)

\* the evaluations of the search in the order they were made
Evaluations == optimizer.results

\* C27: the parameters optimize() returns are those of the first evaluation
\* whose score is the maximum over all evaluations of the whole search
C27_BestIsFirstMaximumOverAllEvaluations ==
    optimizer.returned # None =>
        \E best \in DOMAIN Evaluations :
            /\ optimizer.returned[1] = Evaluations[best].params
            /\ \A j \in DOMAIN Evaluations :
                  FGe(Evaluations[best].score, Evaluations[j].score)
            /\ \A j \in 1..(best - 1) :
                  Evaluations[j].score # Evaluations[best].score

\* the engine as BacktestEngine.__init__ leaves it
FreshWorld ==
    [heap |-> << >>, cash |-> initial_capital, equity |-> initial_capital,
     positions |-> EmptyMap, closed_positions |-> << >>,
     trade_history |-> << >>, engine_positions |-> << >>, history |-> << >>]

\* the score of a parameter set evaluated on a new engine
FreshScore(params) ==
    LET cfg == [config EXCEPT !.indicators = Update(@, params)]
        e == engine_run(cfg, FreshWorld, optimizer.data, 1,
                        CHOOSE now \in SearchClock : TRUE)
    IN  objective_func(optimizer.objective, e.world.history, e.world.equity)

\* C24: every evaluation starts from a fresh portfolio and an empty trade
\* history, and the score it records is the score of its parameter set on a
\* new engine, whatever was evaluated before it
C24_EvaluationsAreIndependent ==
    [][/\ (lastOp'.op = "evaluate_params" /\ lastOp'.result = "run") =>
             /\ World = FreshWorld
             /\ history = << >>
       /\ (lastOp'.op = "evaluate_params" /\ lastOp'.result = "ok") =>
             optimizer'.results[lastOp'.ref].score =
                 FreshScore(optimizer'.results[lastOp'.ref].params)]_vars

\* the Cartesian product of the candidate lists, as a set of parameter dicts
CartesianProduct(param_space) ==
    LET keys == {param_space[i][1] : i \in DOMAIN param_space}
        candidates(k) ==
            LET i == CHOOSE i \in DOMAIN param_space : param_space[i][1] = k
            IN  {param_space[i][2][j] : j \in DOMAIN param_space[i][2]}
    IN  {f \in [keys -> UNION {candidates(k) : k \in keys}] :
            \A k \in keys : f[k] \in candidates(k)}

\* k1 * ... * kn
RECURSIVE ProductOfLengths(_)
ProductOfLengths(param_space) ==
    IF param_space = << >> THEN 1
    ELSE Len(Head(param_space)[2]) * ProductOfLengths(Tail(param_space))

\* C23: a grid search that has ended has evaluated k1 * ... * kn parameter
\* combinations, every combination of the Cartesian product exactly once
C23_GridEvaluatesProductExactlyOnce ==
    optimizer.kind = "grid" =>
        /\ \A i, j \in DOMAIN Evaluations :
              Evaluations[i].params = Evaluations[j].params => i = j
        /\ \A i \in DOMAIN Evaluations :
              Evaluations[i].params \in CartesianProduct(optimizer.param_space)
        /\ ~Searching =>
              /\ Len(Evaluations) = ProductOfLengths(optimizer.param_space)
              /\ \A p \in CartesianProduct(optimizer.param_space) :
                    \E i \in DOMAIN Evaluations : Evaluations[i].params = p

\* the sum over the recorded trades of pnl - commission
NetOfTrades(ts) ==
    SeqSum([i \in 1..Len(ts) |-> RSub(ts[i].pnl, ts[i].commission)])

\* C34: at every bar of run_backtest the balance is initial_balance plus the
\* sum over the recorded trades of (pnl - commission), so the report's
\* 'Net Profit' is 'Final Balance' minus the initial balance; an open
\* position contributes to neither the balance nor the trade list
C34_BalanceIsInitialPlusNetOfTrades ==
    /\ balance = RAdd(initial_balance, NetOfTrades(trades))
    /\ trades # << >> =>
          LET report == generate_report(BacktesterState)[1]
          IN  report.Net_Profit = RSub(report.Final_Balance, initial_balance)
    /\ trades = << >> => balance = initial_balance

\* two trades recorded, one won and one lost, and a third position open
C34_Witness ==
    /\ Len(trades) = 2
    /\ run.position # None
    /\ \E i, j \in DOMAIN trades : IsProfit(trades[i].pnl) /\ IsLoss(trades[j].pnl)
    /\ \A i \in DOMAIN trades : IsProfit(trades[i].commission)
    /\ bar_index = MaxRows

\* the positions created by the step that leads to the next state
OpenedInStep == (Len(heap) + 1)..Len(heap')

\* C36: on every bar the exit check runs before the entry: a step that starts
\* flat records no trade, a step that starts with a position records at most
\* one, and a position the engine created in a step is still open after it;
\* so no position is closed on the bar it was opened
C36_NeverClosedOnItsEntryBar ==
    [][/\ Len(trades') - Len(trades) <= (IF run.position = None THEN 0 ELSE 1)
       /\ \A ref \in OpenedInStep :
             /\ heap'[ref].exit_price = None
             /\ heap'[ref].exit_timestamp = None
             /\ ref \notin {closed_positions'[i] : i \in DOMAIN closed_positions'}]_vars

\* the first row opened a long position whose stop lies inside that row's
\* own range, and the position is still open after the row
C36_Witness ==
    /\ bar_index = 1
    /\ trades = << >>
    /\ run.position = Some("long")
    /\ run.entry_price = bar[1].close
    /\ RLe(bar[1].low, run.stop_loss)

\* the row just processed left the run flat before its entry part: it
\* started flat or its exit part recorded a trade
FlatAtEntry == run.position = None \/ Len(trades') = Len(trades) + 1

\* C37: run_backtest holds at most one position: while one is open and no
\* trade is recorded no other is opened, and a row that is flat at its entry
\* part and carries both signals opens exactly one position at its close,
\* long if the long entry is permitted, otherwise short
C37_OnePositionLongBeforeShort ==
    [][LET row == bar'[1]
           long_permitted == \/ config.trading.allow_consecutive_trades
                             \/ last_trade_type' # Some("long")
           short_permitted == \/ config.trading.allow_consecutive_trades
                              \/ last_trade_type' # Some("short")
       IN  /\ ~FlatAtEntry => run' = run /\ Len(trades') = Len(trades)
           /\ Len(trades') <= Len(trades) + 1
           /\ FlatAtEntry /\ row.long_signal /\ row.short_signal =>
                 /\ long_permitted \/ short_permitted
                 /\ run'.position =
                       Some(IF long_permitted THEN "long" ELSE "short")
                 /\ run'.entry_price = row.close]_vars

\* a row with both signals closed a long position and, consecutive trades
\* of one direction being off, opened a short one at its close
C37_Witness ==
    /\ bar # None
    /\ bar[1].long_signal /\ bar[1].short_signal
    /\ ~config.trading.allow_consecutive_trades
    /\ trades # << >>
    /\ trades[Len(trades)].time = bar_index
    /\ last_trade_type = Some("long")
    /\ run.position = Some("short")
    /\ run.entry_price = bar[1].close

\* the positions add_position accepted: the caller stamps each position
\* with its own reference, and _record_trade logs the stamp
OpenedRefs ==
    {trade_history[k].timestamp :
        k \in {i \in DOMAIN trade_history : trade_history[i].action = "open"}}

\* every position that add_position accepted, and no other, has been closed
\* by remove_position, each of them once
EveryOpenedPositionClosed ==
    /\ positions = EmptyMap
    /\ closed_positions # << >>
    /\ ClosedRefs = OpenedRefs
    /\ Cardinality(ClosedRefs) = Len(closed_positions)
    /\ CountEvents(trade_history, Len(trade_history), "open")
          = Len(closed_positions)

\* the sum of the realized pnl of the closed positions
RealizedPnl ==
    SeqSum([i \in DOMAIN closed_positions |-> heap[closed_positions[i]].pnl[1]])

\* C33: once every opened position has been closed through remove_position,
\* cash is initial_capital plus the sum of the realized pnl of the closed
\* positions, for long and for short positions alike
C33_CashIsInitialPlusRealizedPnl ==
    EveryOpenedPositionClosed => cash = RAdd(initial_capital, RealizedPnl)

\* C35: evaluating a parameter set leaves the base configuration unchanged,
\* nested sections included: no step of a search changes any key of the
\* shared engine configuration, so after any number of evaluations it is the
\* configuration the search started with
C35_EvaluationLeavesConfigUnchanged ==
    [][config' = config]_vars

\* C39: GeneticOptimizer.optimize runs to completion for every
\* population_size >= 1 and generations >= 1: parent selection yields enough
\* parents for the two-parent draw, so no step of the offspring generation
\* raises: a search with a strategy class that can be constructed and run
\* never ends in an exception
C39_OffspringGenerationNeverFails ==
    optimizer.kind = "genetic" /\ optimizer.strategy_class = "UserStrategy" =>
        optimizer.raised = None

\* C31: every generation of the evolutionary search has exactly
\* population_size individuals; while generation g is evaluated the results
\* hold g * population_size evaluations of the earlier generations followed
\* by one evaluation of each individual evaluated so far, in order, and the
\* parents are selected only when none is pending; a search that has
\* returned has recorded generations * population_size evaluations
C31_EachGenerationEvaluatedOnce ==
    optimizer.kind = "genetic" =>
        LET size == optimizer.population_size
            g == optimizer.generation
            evaluated == size - Len(optimizer.pending)
        IN  /\ Len(optimizer.population) = size
            /\ g < Generations =>
                  /\ Len(Evaluations) = g * size + evaluated
                  /\ optimizer.pending = SubSeq(optimizer.population,
                                                evaluated + 1, size)
                  /\ \A i \in 1..evaluated :
                        Evaluations[g * size + i].params = optimizer.population[i]
            /\ g = Generations =>
                  /\ optimizer.pending = << >>
                  /\ Len(Evaluations) = Generations * size
            /\ lastOp.op = "next_generation" => Len(Evaluations) = (lastOp.ref + 1) * size
            /\ optimizer.returned # None => Len(Evaluations) = Generations * size

\* a search with four individuals has returned after two generations
C31_Witness ==
    /\ optimizer.kind = "genetic"
    /\ optimizer.population_size = PopulationSize
    /\ optimizer.returned # None
    /\ Len(Evaluations) = Generations * PopulationSize
    /\ \E i, j \in 1..PopulationSize :
          Evaluations[PopulationSize + i].params # Evaluations[j].params

\* fitness above zero; nan is not
PositiveFitness(score) == FGt(score, RInt(0))

\* C32: the parents _select_parents returns are len(population) // 2
\* individuals of the population; when at least one individual has positive
\* fitness every parent has positive fitness, so none with zero, negative,
\* -inf or nan fitness is selected; when none has positive fitness the
\* parents are a sample of distinct individuals of the whole population
C32_ParentsHavePositiveFitness ==
    optimizer.parents # None =>
        LET parents == optimizer.parents[1]
            fitness_scores == optimizer.fitness_scores
            size == Len(optimizer.population)
        IN  /\ Len(parents) = size \div 2
            /\ \A j \in DOMAIN parents : parents[j] \in 1..size
            /\ (\E i \in 1..size : PositiveFitness(fitness_scores[i])) =>
                  \A j \in DOMAIN parents :
                      PositiveFitness(fitness_scores[parents[j]])
            /\ (\A i \in 1..size : ~PositiveFitness(fitness_scores[i])) =>
                  \A j, k \in DOMAIN parents : j # k => parents[j] # parents[k]

\* one individual with positive fitness among individuals with zero,
\* negative and -inf fitness, drawn twice as parent
C32_Witness ==
    /\ optimizer.parents # None
    /\ Len(optimizer.population) = PopulationSize
    /\ optimizer.fitness_scores = <<NegInf, RInt(0), RInt(1), RInt(-1)>>
    /\ optimizer.parents[1] = <<3, 3>>

\* a total assignment over the parameter space with candidate values
IsIndividual(params, param_space) ==
    /\ DOMAIN params = ParamNames(param_space)
    /\ \A name \in ParamNames(param_space) :
          params[name] \in Candidates(param_space, name)

\* the genes in which two individuals differ
GenesChanged(a, b) == {name \in DOMAIN a : a[name] # b[name]}

\* C38: every individual is a total assignment over the parameter space
\* with candidate values: those of the population, the child of a crossover,
\* whose every gene is the gene of one of its two parents, and the child
\* after a mutation, which differs from the crossed child in at most the one
\* gene that was replaced; the parents are individuals of the population as
\* it was before
C38_IndividualsStayInParameterSpace ==
    optimizer.kind = "generation" =>
        /\ \A i \in DOMAIN optimizer.population :
              IsIndividual(optimizer.population[i], optimizer.param_space)
        /\ optimizer.crossed # None =>
              LET parent1 == optimizer.parent1[1]
                  parent2 == optimizer.parent2[1]
                  crossed == optimizer.crossed[1]
                  child == optimizer.child[1]
              IN  /\ IsIndividual(crossed, optimizer.param_space)
                  /\ \A name \in DOMAIN crossed :
                        crossed[name] \in {parent1[name], parent2[name]}
                  /\ IsIndividual(child, optimizer.param_space)
                  /\ Cardinality(GenesChanged(child, crossed)) <= 1
                  /\ ~optimizer.mutated => child = crossed
                  /\ \E i, j \in DOMAIN optimizer.population :
                        /\ i # j \/ Len(optimizer.parents[1]) >= 2
                        /\ parent1 = optimizer.population[i]
                        /\ parent2 = optimizer.population[j]

\* a child that took one gene from each parent, equal to neither, and whose
\* mutation gave one gene a value neither parent has
C38_Witness ==
    /\ optimizer.kind = "generation"
    /\ optimizer.mutated
    /\ optimizer.crossed[1] \notin {optimizer.parent1[1], optimizer.parent2[1]}
    /\ Cardinality(GenesChanged(optimizer.child[1], optimizer.crossed[1])) = 1
    /\ \E name \in DOMAIN optimizer.child[1] :
          optimizer.child[1][name] \notin {optimizer.parent1[1][name],
                                           optimizer.parent2[1][name]}

=============================================================================
